---------------------------- MODULE Spec2Model ----------------------------
(***************************************************************************)
(* Model of the task-to-agent matching, delegation and conflict-resolution *)
(* core of the multi-agent orchestration platform:                         *)
(*   backend/agents/registry.py        CapabilityMatcher, AgentRegistry    *)
(*   backend/tasks/decomposer.py       TaskDecomposer, TaskDelegator       *)
(*   backend/workers/task_executor.py  TaskExecutor                        *)
(*   backend/api/routes.py             complete_task                       *)
(*   backend/maintenance/reset_agents.py                                   *)
(*   backend/communication/message_bus.py  CommunicationProtocol           *)
(*   backend/consensus/resolver.py     ConflictResolver                    *)
(*                                                                         *)
(* The store is read-committed: a handler's writes become visible to the   *)
(* other sessions at its commit, and a handler that awaits between its     *)
(* read and its commit is split at that await.                             *)
(***************************************************************************)
EXTENDS Integers, Sequences, FiniteSets, TLC

VARIABLES
    agents,            \* agents table: sequence of rows, row i has id i
    tasks,             \* tasks table: sequence of rows, row i has id i
    calls,             \* delegate_task coroutines in flight
    execs,             \* task executions in flight (executor loop / complete_task)
    now,               \* datetime.utcnow(), in seconds
    hist,              \* per task: the failure reports handled so far (history)
    conflicts,         \* ConflictResolver.active_conflicts: conflict i has id i
    requests,          \* request_response coroutines in flight
    redis,             \* the module's Redis client and the capability hashes of the server
    pending_requests,  \* keys of CommunicationProtocol.pending_requests (correlation ids)
    messages,          \* the messages table: rows send_message committed
    redis_client,      \* MessageBus.redis_client: "none" or "client"
    ret                \* what the last call returned, when it was a registration, a
                       \* sweep, a delegation, a completion, a reassignment or a
                       \* conflict resolution; else NoRet

vars == <<agents, tasks, calls, execs, now, hist, conflicts, requests,
          pending_requests, messages, redis_client, redis, ret>>

----------------------------------------------------------------------------
(* Bounds of the model *)

MaxTasks == 2
MaxCalls == 2
MaxExecs == 1
MaxTicks == 2
MaxRetry == 4
MaxReports == 3
MaxConflicts == 2
MaxRequests == 3
MaxSubtasks == 2
MaxGiven == 2
MaxMessages == 2
MaxVoters == 2
MaxPool == 2
TickSeconds == 61

Names == {"A1", "A2"}
CapSets == {{"data_analysis", "reporting"}, {"web_scraping"}}
ReqSets == {{"data_analysis"}}
Msgs == {"e1", "e2"}

MaxAgents == Cardinality(Names)
AgentIds == 1..MaxAgents
TaskIds == 1..MaxTasks
CallIds == 1..MaxCalls
ExecIds == 1..MaxExecs
ConflictIds == 1..MaxConflicts
RequestIds == 1..MaxRequests

----------------------------------------------------------------------------
(* Program constants *)

TASK_RETRY_LIMIT == 3
OFFLINE_THRESHOLD == 120
DEFAULT_SUCCESS_RATE == 5
DEFAULT_AVG_RESPONSE_TIME == 1000

\* error_message of a task: none, a raw failure message, or
\* "Max retries exceeded. Last failure: <msg>"
NoError == [pre |-> FALSE, msg |-> "none"]
RawError(m) == [pre |-> FALSE, msg |-> m]
MaxRetriesError(m) == [pre |-> TRUE, msg |-> m]

\* ret: the operation, the agent and task it concerned, its numeric result,
\* its outcome or string argument, its capability-list argument
NoRet == [op |-> "none", a |-> 0, t |-> 0, v |-> 0, s |-> "", c |-> {}]
Ret(op, a, t, v, s) == [op |-> op, a |-> a, t |-> t, v |-> v, s |-> s, c |-> {}]

----------------------------------------------------------------------------
(* CapabilityMatcher: scores are exact rationals <<numerator, denominator>> *)

Min(x, y) == IF x <= y THEN x ELSE y
Max(x, y) == IF x >= y THEN x ELSE y

\* min(1.0, jaccard + 0.2 * exact_match_bonus), as <<n, d>>
CapabilityScore(agentCaps, required) ==
    IF required = {} THEN <<1, 1>>
    ELSE IF agentCaps = {} THEN <<0, 1>>
    ELSE LET i == Cardinality(agentCaps \cap required)
             u == Cardinality(agentCaps \cup required)
             r == Cardinality(required)
             n == 5 * i * r + i * u
             d == 5 * u * r
         IN  IF n >= d THEN <<1, 1>> ELSE <<n, d>>

\* a faulty variant of ResponseTimeScore: no clamp at 0
ResponseTimeScoreUnclamped(rt) == 10 - (rt \div 1000)

\* max(0, 1 - avg_response_time / 10000), in tenths
ResponseTimeScore(rt) == Max(0, 10 - (rt \div 1000))

\* 0.6 * capability + 0.3 * success_rate + 0.1 * response_time_score,
\* success_rate in tenths, as <<n, d>>
TotalScore(agent, required) ==
    LET c == CapabilityScore(agent.caps, required)
    IN  <<60 * c[1] + (3 * agent.sr + ResponseTimeScore(agent.rt)) * c[2],
          100 * c[2]>>

ScoreGT(x, y) == x[1] * y[2] > y[1] * x[2]
ScoreGE(x, y) == x[1] * y[2] >= y[1] * x[2]
MinScore == <<3, 10>>

\* an agent find_best_agent_for_task can return: idle, total score > 0.3
EligibleAgent(row, required) ==
    row.status = "idle" /\ ScoreGT(TotalScore(row, required), MinScore)

\* get_available_agents: ids of the rows whose status is idle
AvailableAgents(ags) == {a \in 1..Len(ags) : ags[a].status = "idle"}

\* find_best_matches(pool, requirements, top_k=1): the idle agents of the pool
\* a descending sort by total score can put first (the store returns the
\* rows in no stated order, so any agent of maximal score may come first)
BestMatches(ags, pool, required) ==
    {a \in pool : /\ ags[a].status = "idle"
                  /\ \A b \in pool : ags[b].status = "idle" =>
                        ScoreGE(TotalScore(ags[a], required), TotalScore(ags[b], required))}

\* find_best_agent_for_task: the best match when its score is > 0.3
FindBestAgentForTask(ags, required) ==
    {a \in BestMatches(ags, AvailableAgents(ags), required) :
        ScoreGT(TotalScore(ags[a], required), MinScore)}

----------------------------------------------------------------------------
(* Initial state: empty tables, no coroutine running *)

IdleCall == [pc |-> "idle", kind |-> "none", task |-> 0, best |-> 0,
             loaded |-> "none", result |-> "none", dec |-> "none", plan |-> <<>>,
             triage |-> "none"]
IdleExec == [pc |-> "idle", task |-> 0, agent |-> 0, rc |-> 0, ast |-> "none"]
NoHist == [n |-> 0, last |-> "none", noalt |-> TRUE]
\* no Redis client (redis_client = None), no agent:*:capabilities key
NoRedis == [client |-> "none", cache |-> <<>>]
IdleRequest == [pc |-> "idle", future |-> "none", result |-> "none"]

\* everything but the agents table
InitRest ==
    /\ tasks = <<>>
    /\ calls = [c \in CallIds |-> IdleCall]
    /\ execs = [e \in ExecIds |-> IdleExec]
    /\ now = 0
    /\ hist = [t \in TaskIds |-> NoHist]
    /\ conflicts = <<>>
    /\ requests = [r \in RequestIds |-> IdleRequest]
    /\ pending_requests = {}
    /\ redis = NoRedis
    /\ messages = <<>>
    /\ redis_client = "none"
    /\ ret = NoRet

Init ==
    /\ agents = <<>>
    /\ InitRest


----------------------------------------------------------------------------
(* AgentRegistry *)

AgentWithName(ags, name) == {a \in 1..Len(ags) : ags[a].name = name}

NewAgent(name, caps, t) ==
    [name |-> name, caps |-> caps, status |-> "idle", hb |-> t,
     sr |-> DEFAULT_SUCCESS_RATE, rt |-> DEFAULT_AVG_RESPONSE_TIME]

\* a faulty variant of RegisteredAgents: a row is added without the lookup
\* by name
AppendedAgents(ags, name, caps, t) == Append(ags, NewAgent(name, caps, t))

\* register_agent: the agents table after the upsert keyed by name
RegisteredAgents(ags, name, caps, t) ==
    IF AgentWithName(ags, name) # {}
    THEN [a \in 1..Len(ags) |->
            IF ags[a].name = name
            THEN [ags[a] EXCEPT !.caps = caps, !.status = "idle", !.hb = t]
            ELSE ags[a]]
    ELSE Append(ags, NewAgent(name, caps, t))

\* redis_client.hset("agent:<id>:capabilities", ...) for a row just created,
\* when there is a client (an empty mapping raises, which is logged)
CachedOnRegister(rd, ags, name, caps) ==
    IF AgentWithName(ags, name) = {} /\ rd.client # "none" /\ caps # {}
    THEN [rd EXCEPT !.cache = [a \in DOMAIN rd.cache \cup {Len(ags) + 1} |->
                                  IF a = Len(ags) + 1 THEN caps ELSE rd.cache[a]]]
    ELSE rd

\* redis_client.delete("agent:<id>:capabilities") when there is a client
UncachedOnUnregister(rd, a) ==
    IF rd.client # "none"
    THEN [rd EXCEPT !.cache = [b \in DOMAIN rd.cache \ {a} |-> rd.cache[b]]]
    ELSE rd

RegisterAgent(name, caps) ==
    /\ agents' = RegisteredAgents(agents, name, caps, now)
    /\ redis' = CachedOnRegister(redis, agents, name, caps)
    /\ ret' = [Ret("register_agent", CHOOSE a \in AgentWithName(agents', name) : TRUE,
                    0, 0, name) EXCEPT !.c = caps]
    /\ UNCHANGED <<tasks, calls, execs, now, messages, redis_client, hist>>
    /\ UNCHANGED <<conflicts, requests, pending_requests>>

\* unregister_agent: False when the id is unknown, else the row goes offline
UnregisterAgent(a) ==
    /\ IF a \in 1..Len(agents)
       THEN /\ agents' = [agents EXCEPT ![a].status = "offline"]
            /\ redis' = UncachedOnUnregister(redis, a)
            /\ ret' = Ret("unregister_agent", a, 0, 1, "")
       ELSE /\ agents' = agents
            /\ redis' = redis
            /\ ret' = Ret("unregister_agent", a, 0, 0, "")
    /\ UNCHANGED <<tasks, calls, execs, now, messages, redis_client, hist>>
    /\ UNCHANGED <<conflicts, requests, pending_requests>>

\* heartbeat: UPDATE ... SET last_heartbeat = utcnow() WHERE id = a; rowcount > 0
Heartbeat(a) ==
    /\ IF a \in 1..Len(agents)
       THEN /\ agents' = [agents EXCEPT ![a].hb = now]
            /\ ret' = Ret("heartbeat", a, 0, 1, "")
       ELSE /\ agents' = agents
            /\ ret' = Ret("heartbeat", a, 0, 0, "")
    /\ UNCHANGED <<tasks, calls, execs, now, messages, redis_client, hist>>
    /\ UNCHANGED <<conflicts, requests, pending_requests, redis>>

\* a faulty variant of StaleAgents: the UPDATE without its status filter
StaleAgentsAnyStatus(ags, t) ==
    {a \in 1..Len(ags) : ags[a].hb < t - OFFLINE_THRESHOLD}

\* the rows matched by cleanup_offline_agents' UPDATE:
\* last_heartbeat < utcnow() - _offline_threshold AND status != 'offline'
StaleAgents(ags, t) ==
    {a \in 1..Len(ags) : /\ ags[a].hb < t - OFFLINE_THRESHOLD
                         /\ ags[a].status # "offline"}

\* cleanup_offline_agents: one UPDATE, returns its rowcount
CleanupOfflineAgents ==
    /\ agents' = [a \in 1..Len(agents) |->
                    IF a \in StaleAgents(agents, now)
                    THEN [agents[a] EXCEPT !.status = "offline"]
                    ELSE agents[a]]
    /\ ret' = Ret("cleanup_offline_agents", 0, 0, Cardinality(StaleAgents(agents, now)), "")
    /\ UNCHANGED <<tasks, calls, execs, now, messages, redis_client, hist>>
    /\ UNCHANGED <<conflicts, requests, pending_requests, redis>>

\* the clock advances
Tick ==
    /\ now < MaxTicks * TickSeconds
    /\ now' = now + TickSeconds
    /\ ret' = NoRet
    /\ UNCHANGED <<messages, redis_client>>
    /\ UNCHANGED <<agents, tasks, calls, execs, hist>>
    /\ UNCHANGED <<conflicts, requests, pending_requests, redis>>


----------------------------------------------------------------------------
(* Delegation: TaskDecomposer.delegate_task and TaskDelegator.delegate_task *)

\* Task(..., status=PENDING) added to the session and flushed: the row has its
\* id but is not visible to the other sessions before the commit
NewTask(required) ==
    [status |-> "uncommitted", agent |-> 0, retry |-> 0, err |-> NoError,
     reqs |-> required, parent |-> 0]

\* a faulty variant of UnassignedTask: the unmatched task is given up
UnassignedTaskFailed(row) == [row EXCEPT !.status = "failed"]

\* the row delegate_task commits when _assign_simple_task found no agent
UnassignedTask(row) == [row EXCEPT !.status = "pending"]

\* the row _assign_simple_task commits: assigned_agent_id, status, started_at
AssignedTask(row, a) == [row EXCEPT !.status = "in_progress", !.agent = a]

\* the status _assign_simple_task passes to update_agent_status:
\* TaskDecomposer passes "busy", TaskDelegator passes best_agent.status
BindStatus(kind, loaded) == IF kind = "decomposer" THEN "busy" ELSE loaded

\* update_agent_status on the row the session loaded with status `loaded`:
\* the UPDATE carries last_heartbeat and, when it differs from the loaded
\* value, status
UpdatedAgent(row, loaded, status, t) ==
    [row EXCEPT !.hb = t, !.status = IF status # loaded THEN status ELSE @]

\* TaskDecomposer.delegate_task up to its first read of the agents: the task
\* is created and flushed, the complexity analysis (either outcome leads to
\* _assign_simple_task) is awaited
DecomposerCreate(c, required) ==
    /\ calls[c].pc = "idle"
    /\ Len(tasks) < MaxTasks
    /\ tasks' = Append(tasks, NewTask(required))
    /\ calls' = [calls EXCEPT ![c] = [IdleCall EXCEPT !.pc = "created",
                                        !.kind = "decomposer", !.task = Len(tasks) + 1]]
    /\ ret' = NoRet
    /\ UNCHANGED <<agents, execs, now, messages, redis_client, hist>>
    /\ UNCHANGED <<conflicts, requests, pending_requests, redis>>

\* TaskDelegator.delegate_task(session, task) on a pending task of the table
DelegatorStart(c, t) ==
    /\ calls[c].pc = "idle"
    /\ t \in 1..Len(tasks)
    /\ tasks[t].status = "pending"
    /\ calls' = [calls EXCEPT ![c] = [IdleCall EXCEPT !.pc = "created",
                                        !.kind = "delegator", !.task = t]]
    /\ ret' = NoRet
    /\ UNCHANGED <<agents, tasks, execs, now, messages, redis_client, hist>>
    /\ UNCHANGED <<conflicts, requests, pending_requests, redis>>

\* _assign_simple_task, first half: find_best_agent_for_task reads the idle
\* agents. No agent: 'No suitable agent available' (TaskDecomposer.delegate_task
\* then commits the new task; TaskDelegator returns). Else the coroutine holds
\* the agent row it loaded and goes on to update_agent_status.
DelegateFind(c) ==
    /\ calls[c].pc = "created"
    /\ LET t == calls[c].task
           found == FindBestAgentForTask(agents, tasks[t].reqs)
       IN  \/ /\ found = {}
              /\ tasks' = IF calls[c].kind = "decomposer"
                          THEN [tasks EXCEPT ![t] = UnassignedTask(tasks[t])]
                          ELSE tasks
              /\ calls' = [calls EXCEPT ![c].pc = "done", ![c].result = "no_agent"]
              /\ ret' = Ret("delegate_task", 0, t, 0, "No suitable agent available")
           \/ \E a \in found :
              /\ tasks' = tasks
              /\ calls' = [calls EXCEPT ![c].pc = "found", ![c].best = a,
                                        ![c].loaded = agents[a].status]
              /\ ret' = NoRet
    /\ UNCHANGED <<agents, execs, now, messages, redis_client, hist>>
    /\ UNCHANGED <<conflicts, requests, pending_requests, redis>>

\* _assign_simple_task, second half: the task fields are set,
\* update_agent_status sets the agent row and commits both
DelegateBind(c) ==
    /\ calls[c].pc = "found"
    /\ LET t == calls[c].task
           a == calls[c].best
       IN  /\ tasks' = [tasks EXCEPT ![t] = AssignedTask(tasks[t], a)]
           /\ agents' = [agents EXCEPT ![a] =
                            UpdatedAgent(agents[a], calls[c].loaded,
                                         BindStatus(calls[c].kind, calls[c].loaded), now)]
           /\ calls' = [calls EXCEPT ![c].pc = "done", ![c].result = "assigned"]
           /\ ret' = Ret("delegate_task", a, t, 1, "assigned")
    /\ UNCHANGED <<execs, now, messages, redis_client, hist>>
    /\ UNCHANGED <<conflicts, requests, pending_requests, redis>>

----------------------------------------------------------------------------
(* Execution: TaskExecutor.process_pending_tasks / execute_task and the     *)
(* complete_task route. Both read an in-progress task joined with its agent,*)
(* await the agent's execution, then write the outcome and commit.          *)

\* the query: Task JOIN Agent ON assigned_agent_id WHERE status = in_progress
Executable(t) ==
    /\ t \in 1..Len(tasks)
    /\ tasks[t].status = "in_progress"
    /\ tasks[t].agent \in 1..Len(agents)

ExecuteBegin(e, t) ==
    /\ execs[e].pc = "idle"
    /\ Executable(t)
    /\ execs' = [execs EXCEPT ![e] = [pc |-> "running", task |-> t,
                                      agent |-> tasks[t].agent,
                                      rc |-> tasks[t].retry,
                                      ast |-> agents[tasks[t].agent].status]]
    /\ ret' = NoRet
    /\ UNCHANGED <<agents, tasks, calls, now, messages, redis_client, hist>>
    /\ UNCHANGED <<conflicts, requests, pending_requests, redis>>

\* mark_task_completed / the success branch of complete_task
CompletedTask(row) == [row EXCEPT !.status = "completed"]

\* mark_task_failed / the failure branch of complete_task: retry_count is
\* the value the session loaded, plus one
FailedTask(row, loadedRetry, m) ==
    [row EXCEPT !.status = "failed", !.err = RawError(m), !.retry = loadedRetry + 1]

\* the agent row after either branch: status idle, last_heartbeat = utcnow()
ReleasedAgent(row, loaded, t) ==
    [row EXCEPT !.hb = t, !.status = IF loaded # "idle" THEN "idle" ELSE @]

ExecuteSucceed(e) ==
    /\ execs[e].pc = "running"
    /\ LET t == execs[e].task
           a == execs[e].agent
       IN  /\ tasks' = [tasks EXCEPT ![t] = CompletedTask(tasks[t])]
           /\ agents' = [agents EXCEPT ![a] = ReleasedAgent(agents[a], execs[e].ast, now)]
           /\ ret' = Ret("complete_task", a, t, 1, "completed")
    /\ execs' = [execs EXCEPT ![e] = IdleExec]
    /\ UNCHANGED <<calls, now, messages, redis_client, hist>>
    /\ UNCHANGED <<conflicts, requests, pending_requests, redis>>

ExecuteFail(e, m) ==
    /\ execs[e].pc = "running"
    /\ execs[e].rc < MaxRetry
    /\ LET t == execs[e].task
           a == execs[e].agent
       IN  /\ tasks' = [tasks EXCEPT ![t] = FailedTask(tasks[t], execs[e].rc, m)]
           /\ agents' = [agents EXCEPT ![a] = ReleasedAgent(agents[a], execs[e].ast, now)]
           /\ ret' = Ret("complete_task", a, t, 0, m)
    /\ execs' = [execs EXCEPT ![e] = IdleExec]
    /\ UNCHANGED <<calls, now, messages, redis_client, hist>>
    /\ UNCHANGED <<conflicts, requests, pending_requests, redis>>

----------------------------------------------------------------------------
(* TaskDelegator.reassign_failed_task(session, task_id, failure_reason) *)

\* a faulty variant of AlternativeAgents: the failed agent is not filtered out
AlternativeAgentsUnfiltered(ags, row) == AvailableAgents(ags)

\* the candidates: get_available_agents minus the task's assigned agent
AlternativeAgents(ags, row) == AvailableAgents(ags) \ {row.agent}

\* matches[0] when `not matches or matches[0][1] < 0.3` is false
SuitableAlternatives(ags, row) ==
    {a \in BestMatches(ags, AlternativeAgents(ags, row), row.reqs) :
        ScoreGE(TotalScore(ags[a], row.reqs), MinScore)}

\* the task row after the 'Max retries exceeded' branch
ExhaustedTask(row, m) ==
    [row EXCEPT !.status = "failed", !.err = MaxRetriesError(m), !.retry = @ + 1]

\* the task row after a successful reassignment
ReassignedTask(row, a) ==
    [row EXCEPT !.status = "pending", !.agent = a, !.err = NoError, !.retry = @ + 1]

\* the history of failure reports for a task
Reported(h, m, noalt) ==
    [n |-> h.n + 1, last |-> m, noalt |-> h.noalt /\ noalt]

\* `persist`: whether the caller commits the session after a return that does
\* not commit (the incremented retry_count is flushed but not committed)
ReassignFailedTask(t, m, persist) ==
    /\ t \in TaskIds
    /\ IF ~(t \in 1..Len(tasks) /\ tasks[t].status # "uncommitted")
       THEN /\ ret' = Ret("reassign_failed_task", 0, t, 0, "Task not found")
            /\ UNCHANGED <<tasks, hist>>
       ELSE /\ tasks[t].retry < MaxRetry
            /\ hist[t].n < MaxReports
            /\ hist' = [hist EXCEPT ![t] =
                          Reported(@, m, AlternativeAgents(agents, tasks[t]) = {})]
            /\ IF tasks[t].retry + 1 >= TASK_RETRY_LIMIT
               THEN /\ tasks' = [tasks EXCEPT ![t] = ExhaustedTask(tasks[t], m)]
                    /\ ret' = Ret("reassign_failed_task", 0, t, tasks[t].retry + 1,
                                  "Max retries exceeded")
               ELSE IF AlternativeAgents(agents, tasks[t]) = {}
               THEN /\ tasks' = IF persist THEN [tasks EXCEPT ![t].retry = @ + 1] ELSE tasks
                    /\ ret' = Ret("reassign_failed_task", 0, t, 0,
                                  "No alternative agents available")
               ELSE IF SuitableAlternatives(agents, tasks[t]) = {}
               THEN /\ tasks' = IF persist THEN [tasks EXCEPT ![t].retry = @ + 1] ELSE tasks
                    /\ ret' = Ret("reassign_failed_task", 0, t, 0,
                                  "No suitable alternative agent found")
               ELSE \E a \in SuitableAlternatives(agents, tasks[t]) :
                    /\ tasks' = [tasks EXCEPT ![t] = ReassignedTask(tasks[t], a)]
                    /\ ret' = Ret("reassign_failed_task", a, t, tasks[t].retry + 1,
                                  "reassigned")
    /\ UNCHANGED <<agents, calls, execs, now, messages, redis_client>>
    /\ UNCHANGED <<conflicts, requests, pending_requests, redis>>

----------------------------------------------------------------------------
(* maintenance/reset_agents.py: every agent idle, in-progress tasks pending *)

ResetAgents ==
    /\ agents' = [a \in 1..Len(agents) |->
                    [agents[a] EXCEPT !.status = "idle", !.hb = now]]
    /\ tasks' = [t \in 1..Len(tasks) |->
                    IF tasks[t].status = "in_progress"
                    THEN [tasks[t] EXCEPT !.status = "pending", !.agent = 0]
                    ELSE tasks[t]]
    /\ ret' = NoRet
    /\ UNCHANGED <<calls, execs, now, messages, redis_client, hist>>
    /\ UNCHANGED <<conflicts, requests, pending_requests, redis>>

----------------------------------------------------------------------------
(* The orchestration core: registry, delegation, execution, maintenance *)

Next ==
    \/ \E n \in Names, cs \in CapSets : RegisterAgent(n, cs)
    \/ \E a \in AgentIds : UnregisterAgent(a)
    \/ \E c \in CallIds, r \in ReqSets : DecomposerCreate(c, r)
    \/ \E c \in CallIds, t \in TaskIds : DelegatorStart(c, t)
    \/ \E c \in CallIds : DelegateFind(c)
    \/ \E c \in CallIds : DelegateBind(c)
    \/ \E e \in ExecIds, t \in TaskIds : ExecuteBegin(e, t)
    \/ \E e \in ExecIds : ExecuteSucceed(e)
    \/ \E e \in ExecIds : ExecuteFail(e, "e1")
    \/ ResetAgents

Spec == Init /\ [][Next]_vars

----------------------------------------------------------------------------
(* The task life cycle: delegation, execution, reassignment, reset. The     *)
(* clock stands still. *)

NextRetry ==
    \/ \E n \in Names, cs \in CapSets : RegisterAgent(n, cs)
    \/ \E r \in ReqSets : DecomposerCreate(1, r)
    \/ DelegateFind(1)
    \/ DelegateBind(1)
    \/ \E e \in ExecIds, t \in TaskIds : ExecuteBegin(e, t)
    \/ \E e \in ExecIds : ExecuteSucceed(e)
    \/ \E e \in ExecIds, m \in Msgs : ExecuteFail(e, m)
    \/ \E t \in TaskIds, m \in Msgs, p \in BOOLEAN : ReassignFailedTask(t, m, p)
    \/ ResetAgents

SpecRetry == Init /\ [][NextRetry]_vars

----------------------------------------------------------------------------
(* Agent health: registration, heartbeats, the offline sweep and the clock, *)
(* with one delegation and its execution to make an agent busy *)

NextHealth ==
    \/ \E n \in Names, cs \in CapSets : RegisterAgent(n, cs)
    \/ \E a \in AgentIds : UnregisterAgent(a)
    \/ \E a \in AgentIds : Heartbeat(a)
    \/ CleanupOfflineAgents
    \/ Tick
    \/ \E r \in ReqSets : DecomposerCreate(1, r)
    \/ DelegateFind(1)
    \/ DelegateBind(1)
    \/ \E e \in ExecIds, t \in TaskIds : ExecuteBegin(e, t)
    \/ \E e \in ExecIds : ExecuteSucceed(e)

SpecHealth == Init /\ [][NextHealth]_vars

----------------------------------------------------------------------------
(* CommunicationProtocol.request_response and handle_response. Request r    *)
(* draws a fresh uuid4 as its correlation id: the id is r itself. The       *)
(* future of a request is pending, set (handle_response gave it a result)   *)
(* or cancelled (wait_for timed out).                                       *)

\* a faulty variant of WaiterRemoved: the entry is popped on the response
\* path only
WaiterRemovedOnResponse(pr, cid, outcome) ==
    IF outcome = "response" THEN pr \ {cid} ELSE pr

\* the finally clause: pending_requests.pop(correlation_id, None), whatever
\* ended the wait
WaiterRemoved(pr, cid, outcome) == pr \ {cid}

\* the future is created and stored under the correlation id; send_message
\* is awaited next
RequestRegister(r) ==
    /\ requests[r].pc = "idle"
    /\ requests' = [requests EXCEPT ![r].pc = "sending", ![r].future = "pending"]
    /\ pending_requests' = pending_requests \cup {r}
    /\ ret' = NoRet
    /\ UNCHANGED <<agents, tasks, calls, execs, now, messages, redis_client, hist, conflicts, redis>>

\* send_message returns (the wait begins) or raises (its commit or its
\* publish failed): the exception leaves request_response before the try
SendMessage(r, delivered) ==
    /\ requests[r].pc = "sending"
    /\ requests' = [requests EXCEPT ![r].pc = IF delivered THEN "waiting" ELSE "raised"]
    /\ ret' = NoRet
    /\ UNCHANGED <<agents, tasks, calls, execs, now, messages, redis_client, hist, conflicts, pending_requests, redis>>

\* a faulty variant of Delivered: the response completes every waiting future
DeliveredToAll(reqs, pr, cid) ==
    [r \in DOMAIN reqs |->
        IF r \in pr /\ reqs[r].future = "pending"
        THEN [reqs[r] EXCEPT !.future = "set"]
        ELSE reqs[r]]

\* a faulty variant of Delivered: set_result without the lookup and without
\* the done() test
DeliveredUnchecked(reqs, pr, cid) ==
    IF cid \in DOMAIN reqs THEN [reqs EXCEPT ![cid].future = "set"] ELSE reqs

\* the futures after handle_response: the future stored under cid gets its
\* result when cid is a key of pending_requests and the future is not done
Delivered(reqs, pr, cid) ==
    IF cid \in pr /\ reqs[cid].future = "pending"
    THEN [reqs EXCEPT ![cid].future = "set"]
    ELSE reqs

\* handle_response(message with correlation id cid); cid = 0 is an id no
\* request ever had
HandleResponse(cid) ==
    /\ requests' = Delivered(requests, pending_requests, cid)
    /\ ret' = Ret("handle_response", 0, cid, 0, "")
    /\ UNCHANGED <<agents, tasks, calls, execs, now, messages, redis_client, hist, conflicts, pending_requests, redis>>

\* wait_for returns the future's result: the response is returned
RequestRespond(r) ==
    /\ requests[r].pc = "waiting"
    /\ requests[r].future = "set"
    /\ requests' = [requests EXCEPT ![r].pc = "returned", ![r].result = "response"]
    /\ pending_requests' = WaiterRemoved(pending_requests, r, "response")
    /\ ret' = NoRet
    /\ UNCHANGED <<agents, tasks, calls, execs, now, messages, redis_client, hist, conflicts, redis>>

\* the timeout of wait_for fires with the future not done: the future is
\* cancelled; the waiting coroutine is resumed later
RequestTimeout(r) ==
    /\ requests[r].pc = "waiting"
    /\ requests[r].future = "pending"
    /\ requests' = [requests EXCEPT ![r].pc = "expired", ![r].future = "cancelled"]
    /\ ret' = NoRet
    /\ UNCHANGED <<agents, tasks, calls, execs, now, messages, redis_client, hist, conflicts, pending_requests, redis>>

\* the coroutine resumes with TimeoutError: the 'Request timeout' dict is
\* returned
RequestExpire(r) ==
    /\ requests[r].pc = "expired"
    /\ requests' = [requests EXCEPT ![r].pc = "returned", ![r].result = "timeout"]
    /\ pending_requests' = WaiterRemoved(pending_requests, r, "timeout")
    /\ ret' = NoRet
    /\ UNCHANGED <<agents, tasks, calls, execs, now, messages, redis_client, hist, conflicts, redis>>

NextMsg ==
    \/ \E r \in RequestIds : RequestRegister(r)
    \/ \E r \in RequestIds, d \in BOOLEAN : SendMessage(r, d)
    \/ \E cid \in RequestIds \cup {0} : HandleResponse(cid)
    \/ \E r \in RequestIds : RequestRespond(r)
    \/ \E r \in RequestIds : RequestTimeout(r)
    \/ \E r \in RequestIds : RequestExpire(r)

SpecMsg == Init /\ [][NextMsg]_vars

----------------------------------------------------------------------------
(* ConflictResolver: detect_conflict and resolve_conflict. A strategy ends  *)
(* by returning a dict whose 'success' is truthy ("success"), by returning  *)
(* one whose 'success' is falsy or absent ("failure"), or with an exception *)
(* that reaches resolve_conflict's except clause ("raise").                 *)

ConsensusMethods == {"negotiation", "majority_vote", "weighted_vote",
                     "expert_decision", "arbitration", "unknown"}

\* what request_response gave for an involved agent: a reply message, a vote
\* whose selected_option is unhashable (one of the option dicts), the
\* 'Request timeout' dict, or an exception
AgentReplies == {"vote", "unhashable_vote", "timeout", "error"}

\* what the decision oracle gave: a JSON object with success true, a JSON
\* object without it, valid JSON that is not an object, text that is not
\* JSON, or an exception (also: no client configured)
OracleReplies == {"resolution", "refusal", "non_object", "not_json", "error"}

\* _analyze_negotiation_responses and _resolve_by_arbitration: json.loads of
\* the oracle's text is returned as it is; any exception inside the try gives
\* the failure dict. resolve_conflict then calls result.get('success'),
\* which raises when the JSON value is not an object
OracleResults(oracle) ==
    CASE oracle = "resolution" -> {"success"}
      [] oracle = "refusal" -> {"failure"}
      [] oracle = "non_object" -> {"raise"}
      [] OTHER -> {"failure"}

\* _resolve_by_voting: a reply counts when its type is vote_response; the
\* tally vote_counts[option] raises on an unhashable option; no vote counted
\* gives 'No votes received'
VotingResults(replies) ==
    IF "unhashable_vote" \in replies THEN {"raise"}
    ELSE IF "vote" \in replies THEN {"success"}
    ELSE {"failure"}

\* _resolve_by_expert_decision: whatever request_response returned from the
\* expert is the decision, the timeout dict included; an exception gives the
\* failure dict
ExpertResults(replies) ==
    {IF reply = "error" THEN "failure" ELSE "success" : reply \in replies}

\* the dispatch of resolve_conflict
StrategyResults(method, replies, oracle) ==
    CASE method \in {"negotiation", "arbitration"} -> OracleResults(oracle)
      [] method \in {"majority_vote", "weighted_vote"} -> VotingResults(replies)
      [] method = "expert_decision" -> ExpertResults(replies)
      [] OTHER -> {"failure"}

\* the conflict's status after resolve_conflict: the except clause returns
\* the error dict and sets nothing
ResolvedStatus(status, result) ==
    CASE result = "success" -> "resolved"
      [] result = "failure" -> "failed"
      [] OTHER -> status

\* detect_conflict finding at least one issue: a new entry, status 'detected'
DetectConflict ==
    /\ Len(conflicts) < MaxConflicts
    /\ conflicts' = Append(conflicts, "detected")
    /\ ret' = NoRet
    /\ UNCHANGED <<agents, tasks, calls, execs, now, messages, redis_client, hist, requests, pending_requests, redis>>

ResolveConflict(cid, method, replies, oracle) ==
    /\ IF cid \notin 1..Len(conflicts)
       THEN /\ conflicts' = conflicts
            /\ ret' = Ret("resolve_conflict", 0, cid, 0, "Conflict not found")
       ELSE \E result \in StrategyResults(method, replies, oracle) :
            /\ conflicts' = [conflicts EXCEPT ![cid] = ResolvedStatus(@, result)]
            /\ ret' = [op |-> "resolve_conflict", a |-> 0, t |-> cid,
                       v |-> IF result = "success" THEN 1 ELSE 0, s |-> result,
                       c |-> replies, method |-> method]
    /\ UNCHANGED <<agents, tasks, calls, execs, now, messages, redis_client, hist, requests, pending_requests, redis>>

NextConflict ==
    \/ DetectConflict
    \/ \E cid \in ConflictIds, method \in ConsensusMethods,
          replies \in (SUBSET AgentReplies) \ {{}}, oracle \in OracleReplies :
            ResolveConflict(cid, method, replies, oracle)

SpecConflict == Init /\ [][NextConflict]_vars

----------------------------------------------------------------------------
(* Two concurrent TaskDecomposer.delegate_task calls while exactly one      *)
(* agent is idle and eligible: the agents table holds that agent and at     *)
(* most one other, which is idle without the capability or offline          *)

RaceAgents ==
    {ags \in UNION {[1..n -> [name : Names, caps : CapSets, status : {"idle", "offline"},
                              hb : {0}, sr : {DEFAULT_SUCCESS_RATE},
                              rt : {DEFAULT_AVG_RESPONSE_TIME}]] : n \in 1..MaxAgents} :
        /\ \A a, b \in 1..Len(ags) : ags[a].name = ags[b].name => a = b
        /\ \A r \in ReqSets :
              Cardinality({a \in 1..Len(ags) : EligibleAgent(ags[a], r)}) = 1}

InitRace ==
    /\ agents \in RaceAgents
    /\ InitRest

NextRace ==
    \/ \E c \in CallIds, r \in ReqSets : DecomposerCreate(c, r)
    \/ \E c \in CallIds : DelegateFind(c)
    \/ \E c \in CallIds : DelegateBind(c)

SpecRace == InitRace /\ [][NextRace]_vars

----------------------------------------------------------------------------
(* The matcher over agents with any performance record: the agents table   *)
(* is seeded (database/seed.py writes performance_metrics), then one task  *)
(* is delegated, executed, fails and is reassigned                         *)

SuccessRates == {0, DEFAULT_SUCCESS_RATE, 10}
ResponseTimes == {0, DEFAULT_AVG_RESPONSE_TIME, 10000, 20000}
MatchReqSets == {{}, {"data_analysis"}, {"data_analysis", "web_scraping"}}

SeededAgents ==
    {ags \in UNION {[1..n -> [name : Names, caps : CapSets, status : {"idle"},
                              hb : {0}, sr : SuccessRates, rt : ResponseTimes]] :
                    n \in 1..MaxAgents} :
        /\ \A a, b \in 1..Len(ags) : ags[a].name = ags[b].name => a = b
        /\ \A a \in 1..Len(ags) : a > 1 => ags[a].name # "A1"
        /\ Len(ags) > 1 => ags[2].rt = DEFAULT_AVG_RESPONSE_TIME}

InitMatch ==
    /\ agents \in SeededAgents
    /\ InitRest

NextMatch ==
    \/ \E r \in ReqSets : DecomposerCreate(1, r)
    \/ DelegateFind(1)
    \/ DelegateBind(1)
    \/ \E e \in ExecIds, t \in TaskIds : ExecuteBegin(e, t)
    \/ \E e \in ExecIds : ExecuteFail(e, "e1")
    \/ \E t \in TaskIds, p \in BOOLEAN : ReassignFailedTask(t, "e1", p)

SpecMatch == InitMatch /\ [][NextMatch]_vars

----------------------------------------------------------------------------
(* Triage: TaskDecomposer.analyze_task_complexity and its heuristic. A      *)
(* description is its sequence of characters.                               *)

UpperLetters ==
    <<"A", "B", "C", "D", "E", "F", "G", "H", "I", "J", "K", "L", "M", "N",
      "O", "P", "Q", "R", "S", "T", "U", "V", "W", "X", "Y", "Z">>
LowerLetters ==
    <<"a", "b", "c", "d", "e", "f", "g", "h", "i", "j", "k", "l", "m", "n",
      "o", "p", "q", "r", "s", "t", "u", "v", "w", "x", "y", "z">>

\* a faulty variant of LowerChar: the case is kept
SameChar(ch) == ch

\* str.lower() on one character
LowerChar(ch) ==
    IF \E i \in 1..Len(UpperLetters) : UpperLetters[i] = ch
    THEN LowerLetters[CHOOSE i \in 1..Len(UpperLetters) : UpperLetters[i] = ch]
    ELSE ch

\* task_description.lower()
Lowered(text) == [i \in 1..Len(text) |-> LowerChar(text[i])]

\* keyword in description_lower: substring search
Contains(text, word) ==
    \E i \in 1..(Len(text) - Len(word) + 1) :
        \A j \in 1..Len(word) : text[i + j - 1] = word[j]

\* complex_keywords
ComplexKeywords == {
    <<"a", "n", "a", "l", "y", "z", "e">>,
    <<"r", "e", "s", "e", "a", "r", "c", "h">>,
    <<"c", "o", "m", "p", "r", "e", "h", "e", "n", "s", "i", "v", "e">>,
    <<"m", "u", "l", "t", "i", "p", "l", "e">>,
    <<"c", "o", "m", "p", "l", "e", "x">>,
    <<"d", "e", "t", "a", "i", "l", "e", "d">>}

\* the keywords found in the lower-cased description
KeywordsFound(text) == {w \in ComplexKeywords : Contains(Lowered(text), w)}

\* _analyze_complexity_heuristic: complexity_score
HeuristicScore(text, caps, multi) ==
    Min(1 + (IF Cardinality(caps) > 1 THEN 2 ELSE 0)
          + (IF multi THEN 3 ELSE 0)
          + Cardinality(KeywordsFound(text)), 10)

\* _analyze_complexity_heuristic: complexity_score, requires_decomposition
HeuristicAnalysis(text, caps, multi) ==
    [score |-> HeuristicScore(text, caps, multi),
     decompose |-> HeuristicScore(text, caps, multi) >= 6]

\* the dict analyze_task_complexity returns when the oracle call or the
\* parse of its answer raises
ErrorAnalysis == [score |-> 5, decompose |-> FALSE]

\* what the oracle does: no client configured ("absent"), an exception, a
\* timeout or text that is not JSON ("fail"), or an analysis of its own
OracleAnalyses ==
    {[kind |-> "absent", score |-> 0, decompose |-> FALSE],
     [kind |-> "fail", score |-> 0, decompose |-> FALSE]}
    \cup [kind : {"analysis"}, score : {2, 8}, decompose : BOOLEAN]

\* analyze_task_complexity
Analysis(text, caps, multi, oracle) ==
    CASE oracle.kind = "absent" -> HeuristicAnalysis(text, caps, multi)
      [] oracle.kind = "fail" -> ErrorAnalysis
      [] OTHER -> [score |-> oracle.score, decompose |-> oracle.decompose]

DescDatasets ==
    <<"C", "o", "m", "p", "r", "e", "h", "e", "n", "s", "i", "v", "e", " ",
      "a", "n", "a", "l", "y", "s", "i", "s", " ", "o", "f", " ", "m", "u",
      "l", "t", "i", "p", "l", "e", " ", "d", "e", "t", "a", "i", "l", "e",
      "d", " ", "d", "a", "t", "a", "s", "e", "t", "s">>
DescTypo ==
    <<"F", "i", "x", " ", "t", "y", "p", "o">>
DescUpper ==
    <<"R", "E", "S", "E", "A", "R", "C", "H", " ", "C", "o", "m", "p", "l",
      "e", "x", " ", "d", "a", "t", "a">>
DescAll ==
    <<"a", "n", "a", "l", "y", "z", "e", " ", "r", "e", "s", "e", "a", "r",
      "c", "h", " ", "c", "o", "m", "p", "r", "e", "h", "e", "n", "s", "i",
      "v", "e", " ", "m", "u", "l", "t", "i", "p", "l", "e", " ", "c", "o",
      "m", "p", "l", "e", "x", " ", "d", "e", "t", "a", "i", "l", "e", "d">>

Descriptions == {DescDatasets, DescTypo, DescUpper, DescAll}
TriageCapSets == {{}, {"data_analysis"}, {"data_analysis", "reporting"}}

AnalyzeTaskComplexity(text, caps, multi, oracle) ==
    /\ ret' = [op |-> "analyze_task_complexity", text |-> text, caps |-> caps,
               multi |-> multi, oracle |-> oracle.kind,
               analysis |-> Analysis(text, caps, multi, oracle)]
    /\ UNCHANGED <<agents, tasks, calls, execs, now, messages, redis_client, hist, conflicts, requests,
                   pending_requests, redis>>

NextTriage ==
    \E text \in Descriptions, caps \in TriageCapSets, multi \in BOOLEAN,
       oracle \in OracleAnalyses : AnalyzeTaskComplexity(text, caps, multi, oracle)

SpecTriage == Init /\ [][NextTriage]_vars

----------------------------------------------------------------------------
(* TaskDelegator.delegate_task for a task whose analysis requires           *)
(* decomposition: _delegate_complex_task                                    *)

\* what decompose_task returns: [] after any exception in the oracle call or
\* the parse ("fail"), the oracle's empty list ("empty"), or its subtasks
DecomposeOutcomes == {"fail", "empty", "subtasks"}

\* a faulty variant of FallsBack: an empty decomposition is carried on with
NeverFallsBack(dec) == FALSE

\* `if not subtasks_data`: the fallback to _assign_simple_task
FallsBack(dec) == dec # "subtasks"

\* the default plan create_execution_plan returns after an exception: no
\* phases, so no subtask gets an agent
DefaultPlan(n) == [i \in 1..n |-> 0]

\* what create_execution_plan returns for n subtasks, as the agent id each
\* subtask index gets from the phases (0: none): the default plan, or the
\* oracle's plan, whose agent ids are the oracle's choice
ExecutionPlans(n, planFails) ==
    IF planFails THEN {DefaultPlan(n)} ELSE [1..n -> 0..MaxAgents]

\* Task(..., parent_task_id=task.id, status=PENDING) for each subtask
Subtask(parentId, required) ==
    [NewTask(required) EXCEPT !.status = "pending", !.parent = parentId]

\* the subtask row after the plan's assignment: assigned_agent_id when the
\* plan names an agent, status pending
PlannedSubtask(row, a) == [row EXCEPT !.agent = IF a # 0 THEN a ELSE @]

SubtasksOf(tks, parentId) == {t \in 1..Len(tks) : tks[t].parent = parentId}

\* the analysis of a pending task requires decomposition
DelegatorStartComposite(c, t) ==
    /\ calls[c].pc = "idle"
    /\ t \in 1..Len(tasks)
    /\ tasks[t].status = "pending"
    /\ tasks[t].parent = 0
    /\ calls' = [calls EXCEPT ![c] = [IdleCall EXCEPT !.pc = "composite",
                                        !.kind = "delegator", !.task = t,
                                        !.triage = "composite"]]
    /\ ret' = NoRet
    /\ UNCHANGED <<agents, tasks, execs, now, messages, redis_client, hist>>
    /\ UNCHANGED <<conflicts, requests, pending_requests, redis>>

\* decompose_task returns; on a fallback _assign_simple_task is next; else
\* create_execution_plan returns and the subtask rows are committed
DelegateDecompose(c, dec, n, planFails) ==
    /\ calls[c].pc = "composite"
    /\ n \in 1..MaxSubtasks
    /\ IF FallsBack(dec)
       THEN /\ calls' = [calls EXCEPT ![c].pc = "created", ![c].dec = dec]
            /\ tasks' = tasks
       ELSE \E plan \in ExecutionPlans(n, planFails) :
            /\ calls' = [calls EXCEPT ![c].pc = "planned", ![c].dec = dec,
                                      ![c].plan = plan,
                                      ![c].result = IF planFails THEN "default_plan"
                                                    ELSE "plan"]
            /\ tasks' = tasks \o [i \in 1..n |->
                                     Subtask(calls[c].task, tasks[calls[c].task].reqs)]
    /\ ret' = NoRet
    /\ UNCHANGED <<agents, execs, now, messages, redis_client, hist>>
    /\ UNCHANGED <<conflicts, requests, pending_requests, redis>>

\* the plan's assignments are written, the parent goes in progress, commit
DelegateComplexCommit(c) ==
    /\ calls[c].pc = "planned"
    /\ LET t == calls[c].task
           first == CHOOSE u \in SubtasksOf(tasks, t) :
                        \A v \in SubtasksOf(tasks, t) : u <= v
       IN  /\ tasks' = [u \in 1..Len(tasks) |->
                          IF u = t THEN [tasks[u] EXCEPT !.status = "in_progress"]
                          ELSE IF u \in SubtasksOf(tasks, t)
                          THEN PlannedSubtask(tasks[u], calls[c].plan[u - first + 1])
                          ELSE tasks[u]]
           /\ ret' = Ret("delegate_task", 0, t, Len(calls[c].plan), "complex")
    /\ calls' = [calls EXCEPT ![c].pc = "done", ![c].result = "complex"]
    /\ UNCHANGED <<agents, execs, now, messages, redis_client, hist>>
    /\ UNCHANGED <<conflicts, requests, pending_requests, redis>>

\* OrchestrationEngine.submit_task for a task whose analysis requires
\* decomposition: TaskDecomposer.delegate_task creates the task and calls its
\* own _delegate_complex_task, which returns _assign_simple_task
SubmitTask(c, required) ==
    /\ calls[c].pc = "idle"
    /\ Len(tasks) < MaxTasks
    /\ tasks' = Append(tasks, NewTask(required))
    /\ calls' = [calls EXCEPT ![c] = [IdleCall EXCEPT !.pc = "created",
                                        !.kind = "decomposer",
                                        !.task = Len(tasks) + 1,
                                        !.triage = "composite"]]
    /\ ret' = NoRet
    /\ UNCHANGED <<agents, execs, now, messages, redis_client, hist>>
    /\ UNCHANGED <<conflicts, requests, pending_requests, redis>>

NextComposite ==
    \/ \E n \in Names, cs \in CapSets : RegisterAgent(n, cs)
    \/ \E r \in ReqSets : DecomposerCreate(1, r)
    \/ \E r \in ReqSets : SubmitTask(1, r)
    \/ \E t \in TaskIds : DelegatorStart(2, t)
    \/ \E t \in TaskIds : DelegatorStartComposite(2, t)
    \/ \E dec \in DecomposeOutcomes, n \in 1..MaxSubtasks, f \in BOOLEAN :
          DelegateDecompose(2, dec, n, f)
    \/ DelegateComplexCommit(2)
    \/ \E c \in CallIds : DelegateFind(c)
    \/ \E c \in CallIds : DelegateBind(c)

SpecComposite == Init /\ [][NextComposite]_vars

----------------------------------------------------------------------------
(* ConflictResolver._detect_resource_conflicts, as called by                *)
(* detect_conflict. A requirement is absent, a number (in tenths) or some   *)
(* other JSON value; `given` is the list of the agents'                     *)
(* resource_requirements.                                                   *)

ResourceTypes == {"cpu", "memory"}
Absent == [kind |-> "absent", val |-> 0]
Number(v) == [kind |-> "number", val |-> v]
Text == [kind |-> "text", val |-> 0]

ResourceRequirements ==
    [cpu : {Absent, Number(4), Number(6), Number(12), Text},
     memory : {Absent, Number(6)}]

\* usage_list: the agents whose resource_requirements has the key
UsageList(given, type) == {a \in 1..Len(given) : given[a][type].kind # "absent"}

RECURSIVE SumNumeric(_, _, _)
\* sum of the numeric requirements of agents 1..k for the type
SumNumeric(given, type, k) ==
    IF k = 0 THEN 0
    ELSE SumNumeric(given, type, k - 1)
         + (IF given[k][type].kind = "number" THEN given[k][type].val ELSE 0)

\* total_requirement, in tenths
TotalRequirement(given, type) == SumNumeric(given, type, Len(given))

\* the conflicts _detect_resource_conflicts returns
ResourceConflicts(given) ==
    {[resource_type |-> type,
      involved_agents |-> UsageList(given, type),
      total_requirement |-> TotalRequirement(given, type),
      severity |-> IF TotalRequirement(given, type) > 15 THEN "high" ELSE "medium"] :
        type \in {ty \in ResourceTypes : /\ Cardinality(UsageList(given, ty)) > 1
                                         /\ TotalRequirement(given, ty) > 10}}

\* detect_conflict for agents with these resource requirements (no
\* capability overlap, no priority disagreement): a conflict record is
\* stored when the list of conflicts is not empty
DetectResourceConflicts(given) ==
    /\ ResourceConflicts(given) # {} => Len(conflicts) < MaxConflicts
    /\ conflicts' = IF ResourceConflicts(given) # {}
                    THEN Append(conflicts, "detected")
                    ELSE conflicts
    /\ ret' = [op |-> "detect_conflict", given |-> given,
               found |-> ResourceConflicts(given)]
    /\ UNCHANGED <<agents, tasks, calls, execs, now, messages, redis_client, hist, requests, pending_requests, redis>>

NextDetect ==
    \E given \in UNION {[1..n -> ResourceRequirements] : n \in 1..MaxGiven} :
        DetectResourceConflicts(given)

SpecDetect == Init /\ [][NextDetect]_vars

----------------------------------------------------------------------------
(* AgentRegistry.update_agent_status as an operation of its own: any value  *)
(* of AgentStatus is accepted                                               *)

AgentStatuses == {"idle", "busy", "error", "offline"}

\* update_agent_status(session, a, status): False when the id is unknown,
\* else status and last_heartbeat are written and committed
UpdateAgentStatus(a, status) ==
    /\ IF a \in 1..Len(agents)
       THEN /\ agents' = [agents EXCEPT ![a] =
                            UpdatedAgent(agents[a], agents[a].status, status, now)]
            /\ ret' = Ret("update_agent_status", a, 0, 1, status)
       ELSE /\ agents' = agents
            /\ ret' = Ret("update_agent_status", a, 0, 0, status)
    /\ UNCHANGED <<tasks, calls, execs, now, messages, redis_client, hist>>
    /\ UNCHANGED <<conflicts, requests, pending_requests, redis>>

NextStatus ==
    \/ \E n \in Names, c \in CapSets : RegisterAgent(n, c)
    \/ \E a \in AgentIds : UnregisterAgent(a)
    \/ \E a \in AgentIds : Heartbeat(a)
    \/ CleanupOfflineAgents
    \/ Tick
    \/ \E a \in AgentIds, st \in AgentStatuses : UpdateAgentStatus(a, st)

SpecStatus == Init /\ [][NextStatus]_vars

----------------------------------------------------------------------------
(* MessageBus: initialize, send_message, broadcast_message, and             *)
(* request_response's call of send_message. The redis handle is the         *)
(* synchronous client of get_redis_client or None.                          *)

RedisClients == {"none", "client"}
SenderIds == {0, 1}

\* initialize: redis_client is what get_redis_client returned
Initialize(client) ==
    /\ redis_client' = client
    /\ ret' = Ret("initialize", 0, 0, 0, client)
    /\ UNCHANGED <<agents, tasks, calls, execs, now, hist, conflicts>>
    /\ UNCHANGED <<requests, pending_requests, messages, redis>>

\* a row of the messages table
Message(sender, receiver, cid) ==
    [sender_id |-> sender, receiver_id |-> receiver, correlation_id |-> cid]

\* how send_message can end: its commit fails; or the row is committed and
\* redis_client.publish is evaluated, which is an AttributeError on None and
\* otherwise returns or raises
SendOutcomes(client, committed) ==
    IF ~committed THEN {"commit failed"}
    ELSE IF client = "none" THEN {"AttributeError"}
    ELSE {"returned", "publish failed"}

\* the ways one send_message call can go: <<committed, outcome>>
SendChoices(client) ==
    {ch \in BOOLEAN \X {"commit failed", "AttributeError", "returned",
                        "publish failed"} : ch[2] \in SendOutcomes(client, ch[1])}

\* the messages table after send_message's session.add and commit
Persisted(msgs, sender, receiver, cid, committed) ==
    IF committed THEN Append(msgs, Message(sender, receiver, cid)) ELSE msgs

\* send_message(session, sender, receiver, ...) with a generated
\* correlation id
SendMessageTo(sender, receiver, choice) ==
    /\ Len(messages) < MaxMessages
    /\ choice \in SendChoices(redis_client)
    /\ messages' = Persisted(messages, sender, receiver,
                             <<"message", Len(messages) + 1>>, choice[1])
    /\ ret' = [op |-> "send_message", sender |-> sender, receiver |-> receiver,
               persisted |-> choice[1], outcome |-> choice[2]]
    /\ UNCHANGED <<agents, tasks, calls, execs, now, hist, conflicts>>
    /\ UNCHANGED <<requests, pending_requests, redis_client, redis>>

\* recipient_filter: an optional status and an optional list of capabilities
RecipientFilters ==
    [status : {"any", "idle"},
     capabilities : {[present |-> FALSE, caps |-> {}],
                     [present |-> TRUE, caps |-> {"web_scraping"}]}]

\* the agents the query and the capability filter keep
Recipients(ags, filter) ==
    {a \in 1..Len(ags) :
        /\ filter.status # "any" => ags[a].status = filter.status
        /\ filter.capabilities.present =>
              ags[a].caps \cap filter.capabilities.caps # {}}

\* the orders in which the query can return the rows
Orders(S) ==
    {o \in [1..Cardinality(S) -> S] : \A i, j \in 1..Cardinality(S) : o[i] = o[j] => i = j}

RECURSIVE BroadcastFrom(_, _, _, _, _, _)
\* the loop of broadcast_message from the k-th recipient on: send_message is
\* awaited for every recipient but the sender; an exception of send_message
\* leaves the loop and the function
BroadcastFrom(order, k, sender, choice, msgs, ids) ==
    IF k > Len(order) THEN [messages |-> msgs, ids |-> ids, failed |-> 0]
    ELSE IF order[k] = sender
    THEN BroadcastFrom(order, k + 1, sender, choice, msgs, ids)
    ELSE LET b == order[k]
             cid == <<"message", Len(msgs) + 1>>
             after == Persisted(msgs, sender, b, cid, choice[b][1])
         IN  IF choice[b][2] = "returned"
             THEN BroadcastFrom(order, k + 1, sender, choice, after, Append(ids, cid))
             ELSE [messages |-> after, ids |-> ids, failed |-> b]

\* broadcast_message(session, sender, ..., recipient_filter)
BroadcastMessage(sender, filter, order, choice) ==
    /\ order \in Orders(Recipients(agents, filter))
    /\ choice \in [AgentIds -> SendChoices(redis_client)]
    /\ Len(messages) + Len(order) <= MaxMessages
    /\ LET run == BroadcastFrom(order, 1, sender, choice, messages, <<>>)
       IN  /\ messages' = run.messages
           /\ ret' = [op |-> "broadcast_message", sender |-> sender,
                      recipients |-> Recipients(agents, filter) \ {sender},
                      failed |-> run.failed,
                      got |-> {run.messages[i].receiver_id :
                                  i \in (Len(messages) + 1)..Len(run.messages)},
                      ids |-> run.ids]
    /\ UNCHANGED <<agents, tasks, calls, execs, now, hist, conflicts>>
    /\ UNCHANGED <<requests, pending_requests, redis_client, redis>>

\* request_response's await of send_message under the correlation id it
\* registered: the wait begins when send_message returns; its exception
\* leaves request_response before the try
RequestSend(r, receiver, choice) ==
    /\ requests[r].pc = "sending"
    /\ Len(messages) < MaxMessages
    /\ choice \in SendChoices(redis_client)
    /\ messages' = Persisted(messages, 0, receiver, <<"request", r>>, choice[1])
    /\ requests' = [requests EXCEPT
                       ![r].pc = IF choice[2] = "returned" THEN "waiting" ELSE "raised",
                       ![r].result = IF choice[2] = "returned" THEN @ ELSE choice[2]]
    /\ ret' = [op |-> "send_message", sender |-> 0, receiver |-> receiver,
               persisted |-> choice[1], outcome |-> choice[2]]
    /\ UNCHANGED <<agents, tasks, calls, execs, now, hist, conflicts>>
    /\ UNCHANGED <<pending_requests, redis_client, redis>>

\* two registered agents, each idle or unregistered since
BusAgents ==
    {ags \in [1..2 -> [name : Names, caps : CapSets, status : {"idle", "offline"},
                       hb : {0}, sr : {DEFAULT_SUCCESS_RATE},
                       rt : {DEFAULT_AVG_RESPONSE_TIME}]] :
        /\ ags[1].name = "A1" /\ ags[1].caps = {"data_analysis", "reporting"}
        /\ ags[2].name = "A2" /\ ags[2].caps = {"web_scraping"}}

InitBus ==
    /\ agents \in BusAgents
    /\ InitRest

NextBus ==
    \/ \E client \in RedisClients : Initialize(client)
    \/ \E sender \in SenderIds, receiver \in AgentIds,
          choice \in UNION {SendChoices(cl) : cl \in RedisClients} :
             SendMessageTo(sender, receiver, choice)
    \/ \E sender \in SenderIds, filter \in RecipientFilters,
          order \in UNION {Orders(S) : S \in SUBSET AgentIds},
          choice \in [AgentIds -> UNION {SendChoices(cl) : cl \in RedisClients}] :
             BroadcastMessage(sender, filter, order, choice)
    \/ RequestRegister(1)
    \/ \E receiver \in AgentIds,
          choice \in UNION {SendChoices(cl) : cl \in RedisClients} :
             RequestSend(1, receiver, choice)
    \/ HandleResponse(1)
    \/ RequestRespond(1)
    \/ RequestTimeout(1)
    \/ RequestExpire(1)

SpecBus == InitBus /\ [][NextBus]_vars

----------------------------------------------------------------------------
(* A decomposed task and its subtasks after _delegate_complex_task: what    *)
(* the delegator, the executor and get_task_progress then do with them      *)

\* the parent and its subtasks
FamilyIds == 1..(1 + MaxSubtasks)

\* the tasks table _delegate_complex_task committed for task 1: the parent in
\* progress with no agent, every subtask pending, with the agent the plan
\* named when it named one
FamilyTasks ==
    {tks \in [FamilyIds -> [status : {"pending", "in_progress"}, agent : 0..MaxAgents,
                            retry : {0}, err : {NoError}, reqs : ReqSets,
                            parent : {0, 1}]] :
        /\ tks[1] = [NewTask({"data_analysis"}) EXCEPT !.status = "in_progress"]
        /\ \A u \in FamilyIds \ {1} :
              \E a \in 0..MaxAgents :
                 tks[u] = PlannedSubtask(Subtask(1, {"data_analysis"}), a)}

\* two registered agents able to take the subtasks
FamilyAgents ==
    <<NewAgent("A1", {"data_analysis", "reporting"}, 0),
      NewAgent("A2", {"data_analysis", "reporting"}, 0)>>

InitFamily ==
    /\ agents = FamilyAgents
    /\ tasks \in FamilyTasks
    /\ calls = [c \in CallIds |-> IdleCall]
    /\ execs = [e \in ExecIds |-> IdleExec]
    /\ now = 0
    /\ hist = [t \in TaskIds |-> NoHist]
    /\ conflicts = <<>>
    /\ requests = [r \in RequestIds |-> IdleRequest]
    /\ pending_requests = {}
    /\ redis = NoRedis
    /\ messages = <<>>
    /\ redis_client = "none"
    /\ ret = NoRet

\* the ids of the rows with the given status among S
WithStatus(tks, S, status) == {u \in S : tks[u].status = status}

\* get_task_progress(session, t): for a task with subtasks the status of the
\* task and overall_progress = completed_subtasks / total_subtasks; for a
\* task without, its status
GetTaskProgress(t) ==
    /\ t \in 1..Len(tasks)
    /\ ret' = IF SubtasksOf(tasks, t) # {}
              THEN [op |-> "get_task_progress", t |-> t, status |-> tasks[t].status,
                    completed |-> Cardinality(WithStatus(tasks, SubtasksOf(tasks, t),
                                                         "completed")),
                    total |-> Cardinality(SubtasksOf(tasks, t))]
              ELSE [op |-> "get_task_progress", t |-> t, status |-> tasks[t].status,
                    completed |-> 0, total |-> 0]
    /\ UNCHANGED <<agents, tasks, calls, execs, now, messages, redis_client, hist>>
    /\ UNCHANGED <<conflicts, requests, pending_requests, redis>>

NextFamily ==
    \/ \E c \in CallIds, t \in FamilyIds : DelegatorStart(c, t)
    \/ \E c \in CallIds : DelegateFind(c)
    \/ \E c \in CallIds : DelegateBind(c)
    \/ \E e \in ExecIds, t \in FamilyIds : ExecuteBegin(e, t)
    \/ \E e \in ExecIds : ExecuteSucceed(e)
    \/ \E e \in ExecIds : ExecuteFail(e, "e1")
    \/ \E t \in FamilyIds : GetTaskProgress(t)

\* the executor's loop and the callers of the delegator keep running
SpecFamily == InitFamily /\ [][NextFamily]_vars /\ WF_vars(NextFamily)

----------------------------------------------------------------------------
(* ConflictResolver._resolve_by_voting and _calculate_agent_weight. Weights *)
(* and tallies are in thousandths; success_rate is in tenths.               *)

\* the options an agent was offered (the ids _generate_voting_options gave)
VoteOptions == {"o1", "o2"}

\* what request_response gave for a voter: a vote_response selecting an
\* option, a vote_response whose selected_option is one of the option dicts
\* it was sent, the 'Request timeout' dict, or an exception
VoteReplies == VoteOptions \cup {"dict", "timeout", "error"}

\* performance_metrics of an involved agent
VoterMetrics == [sr : {0, 10}, total_tasks : {0, 200}]

\* _calculate_agent_weight: max(0.1, 0.7 * success_rate + 0.3 * min(1, total_tasks / 100))
AgentWeight(metrics) == Max(100, 70 * metrics.sr + 3 * Min(100, metrics.total_tasks))

\* agent_weights[agent_id]
VoteWeight(weighted, metrics) == IF weighted THEN AgentWeight(metrics) ELSE 1000

\* votes: the agents whose response has type vote_response
Voted(replies) == {i \in 1..Len(replies) : replies[i] \notin {"timeout", "error"}}

RECURSIVE Tally(_, _, _, _, _)
\* vote_counts[option] over the votes of agents 1..k
Tally(weighted, voters, replies, option, k) ==
    IF k = 0 THEN 0
    ELSE Tally(weighted, voters, replies, option, k - 1)
         + (IF replies[k] = option THEN VoteWeight(weighted, voters[k]) ELSE 0)

\* vote_counts as a function of the options voted for
VoteCounts(weighted, voters, replies) ==
    [o \in {replies[i] : i \in Voted(replies)} |->
        Tally(weighted, voters, replies, o, Len(replies))]

\* max(vote_counts, key=vote_counts.get): the first key inserted among those
\* of maximal count; keys are inserted in the order of the agents' votes
WinningOption(weighted, voters, replies) ==
    LET counts == VoteCounts(weighted, voters, replies)
        best == {o \in DOMAIN counts : \A q \in DOMAIN counts : counts[o] >= counts[q]}
        first(o) == CHOOSE i \in Voted(replies) :
                        replies[i] = o /\ \A j \in Voted(replies) : replies[j] = o => i <= j
    IN  CHOOSE o \in best : \A q \in best : first(o) <= first(q)

\* _resolve_by_voting(session, conflict_data, weighted) for the involved
\* agents `voters` and what each replied: the tally raises TypeError on an
\* unhashable option
ResolveByVoting(weighted, voters, replies) ==
    /\ Len(voters) = Len(replies)
    /\ ret' = IF \E i \in Voted(replies) : replies[i] = "dict"
              THEN [op |-> "resolve_by_voting", weighted |-> weighted, voters |-> voters,
                    replies |-> replies, outcome |-> "raise", winner |-> "none",
                    counts |-> <<>>]
              ELSE IF Voted(replies) = {}
              THEN [op |-> "resolve_by_voting", weighted |-> weighted, voters |-> voters,
                    replies |-> replies, outcome |-> "No votes received",
                    winner |-> "none", counts |-> <<>>]
              ELSE [op |-> "resolve_by_voting", weighted |-> weighted, voters |-> voters,
                    replies |-> replies, outcome |-> "success",
                    winner |-> WinningOption(weighted, voters, replies),
                    counts |-> VoteCounts(weighted, voters, replies)]
    /\ UNCHANGED <<agents, tasks, calls, execs, now, messages, redis_client, hist>>
    /\ UNCHANGED <<conflicts, requests, pending_requests, redis>>

NextVote ==
    \E weighted \in BOOLEAN, n \in 1..MaxVoters :
        \E voters \in [1..n -> VoterMetrics], replies \in [1..n -> VoteReplies] :
            ResolveByVoting(weighted, voters, replies)

SpecVote == Init /\ [][NextVote]_vars

\* replies of voters that do not keep to the options: a vote_response whose
\* selected_option was not offered, and one without selected_option, for
\* which response.get('selected_option') is None
BallotReplies == VoteOptions \cup {"not_offered", "None", "timeout"}

NextBallot ==
    \E weighted \in BOOLEAN, n \in 1..MaxVoters :
        \E voters \in [1..n -> VoterMetrics], replies \in [1..n -> BallotReplies] :
            ResolveByVoting(weighted, voters, replies)

SpecBallot == Init /\ [][NextBallot]_vars

----------------------------------------------------------------------------
(* CapabilityMatcher.find_best_matches on a list of agents: the order of    *)
(* the result                                                               *)

RankSuccessRates == {9, 10}
RankResponseTimes == {7000, 10000, 20000}

\* the agents a caller can pass, in the order of the list
Pools ==
    UNION {[1..n -> [status : {"idle", "busy"}, caps : CapSets,
                     sr : RankSuccessRates, rt : RankResponseTimes]] : n \in 1..MaxPool}

\* matches.sort(key=lambda x: x[1], reverse=True): i comes before j when its
\* total score is greater, or equal with i earlier in the list (the sort is
\* stable)
SortedBefore(pool, required, i, j) ==
    \/ ScoreGT(TotalScore(pool[i], required), TotalScore(pool[j], required))
    \/ /\ ScoreGE(TotalScore(pool[i], required), TotalScore(pool[j], required))
       /\ ScoreGE(TotalScore(pool[j], required), TotalScore(pool[i], required))
       /\ i < j

\* the positions in the list of the idle agents, sorted
SortedMatches(pool, required) ==
    LET idle == {i \in 1..Len(pool) : pool[i].status = "idle"}
        rank(i) == 1 + Cardinality({j \in idle : SortedBefore(pool, required, j, i)})
    IN  [k \in 1..Cardinality(idle) |-> CHOOSE i \in idle : rank(i) = k]

\* matches[:top_k]
FirstK(seq, k) == [i \in 1..Min(k, Len(seq)) |-> seq[i]]

\* find_best_matches(pool, {'capabilities': required}, top_k)
FindBestMatches(pool, required, top_k) ==
    /\ ret' = [op |-> "find_best_matches", pool |-> pool, required |-> required,
               matches |-> FirstK(SortedMatches(pool, required), top_k)]
    /\ UNCHANGED <<agents, tasks, calls, execs, now, messages, redis_client, hist>>
    /\ UNCHANGED <<conflicts, requests, pending_requests, redis>>

NextRank ==
    \E pool \in Pools, required \in ReqSets, top_k \in {1, 5} :
        FindBestMatches(pool, required, top_k)

SpecRank == Init /\ [][NextRank]_vars

----------------------------------------------------------------------------
(* ConflictResolver._detect_capability_conflicts, as called by              *)
(* detect_conflict on a list of agents                                      *)

MaxListed == 3
ListedIds == 1..MaxListed

OverlapCapSets ==
    {{},
     {"data_analysis", "reporting", "nlp"},
     {"data_analysis", "reporting", "nlp", "vision"},
     {"data_analysis", "reporting", "nlp", "vision", "translation"}}

\* the agents lists: distinct agents in some order, each with its capabilities
Listings ==
    UNION {UNION {{[i \in 1..Len(o) |-> [id |-> o[i], capabilities |-> c[i]]] :
                      c \in [1..Len(o) -> OverlapCapSets]} : o \in Orders(S)} :
              S \in SUBSET ListedIds \ {{}}}

\* set(existing_group_key.split(',')) of the key ','.join(sorted(caps)): the
\* key of the empty set is '', which splits into ['']
GroupCaps(key) == IF key = {} THEN {""} ELSE key

\* union and len(intersection) / len(union) > 0.7
Overlaps(agent_caps, existing_caps) ==
    /\ agent_caps \union existing_caps # {}
    /\ 10 * Cardinality(agent_caps \intersect existing_caps)
          > 7 * Cardinality(agent_caps \union existing_caps)

RECURSIVE GroupAgents(_, _, _)
\* capability_groups after the agents from the k-th on: an agent joins the
\* first group whose key it overlaps with, else it starts a group under its
\* own key (replacing the members of a group that has this key)
GroupAgents(given, k, groups) ==
    IF k > Len(given) THEN groups
    ELSE LET caps == given[k].capabilities
             hits == {g \in 1..Len(groups) : Overlaps(caps, GroupCaps(groups[g].key))}
             same == {g \in 1..Len(groups) : groups[g].key = caps}
         IN  IF hits # {}
             THEN LET g == CHOOSE h \in hits : \A h2 \in hits : h <= h2
                  IN  GroupAgents(given, k + 1,
                          [groups EXCEPT ![g].members = Append(@, given[k].id)])
             ELSE IF same # {}
             THEN LET g == CHOOSE h \in same : TRUE
                  IN  GroupAgents(given, k + 1,
                          [groups EXCEPT ![g].members = <<given[k].id>>])
             ELSE GroupAgents(given, k + 1,
                      Append(groups, [key |-> caps, members |-> <<given[k].id>>]))

\* the conflicts _detect_capability_conflicts returns: the groups with more
\* than one agent
CapabilityConflicts(given) ==
    {[type |-> "capability_overlap",
      capabilities |-> g.key,
      involved_agents |-> g.members,
      severity |-> "low"] :
        g \in {GroupAgents(given, 1, <<>>)[i] :
                  i \in {j \in 1..Len(GroupAgents(given, 1, <<>>)) :
                            Len(GroupAgents(given, 1, <<>>)[j].members) > 1}}}

\* detect_conflict for agents with these capabilities (no resource
\* requirement, no priority disagreement): a conflict record is stored when
\* the list of conflicts is not empty
DetectCapabilityConflicts(given) ==
    /\ CapabilityConflicts(given) # {} => Len(conflicts) < MaxConflicts
    /\ conflicts' = IF CapabilityConflicts(given) # {}
                    THEN Append(conflicts, "detected")
                    ELSE conflicts
    /\ ret' = [op |-> "detect_conflict", given |-> given,
               found |-> CapabilityConflicts(given)]
    /\ UNCHANGED <<agents, tasks, calls, execs, now, messages, redis_client, hist, requests, pending_requests, redis>>

NextOverlap == \E given \in Listings : DetectCapabilityConflicts(given)

SpecOverlap == Init /\ [][NextOverlap]_vars

----------------------------------------------------------------------------
(* AgentRegistry.find_agents_by_capability over the agents table and the    *)
(* Redis capability cache                                                   *)

\* the client of the module is none, the one init_database makes ("bytes":
\* replies as bytes) or the one get_redis_client makes ("text":
\* decode_responses=True)

QuerySets == {{"data_analysis"}, {"data_analysis", "web_scraping"}}

\* init_database: redis.from_url(REDIS_URL), kept when the ping succeeds
InitDatabase(reachable) ==
    /\ redis.client = "none"
    /\ redis' = [redis EXCEPT !.client = IF reachable THEN "bytes" ELSE "none"]
    /\ ret' = [op |-> "init_database", reachable |-> reachable]
    /\ UNCHANGED <<agents, tasks, calls, execs, now, messages, redis_client, hist>>
    /\ UNCHANGED <<conflicts, requests, pending_requests>>

\* get_redis_client while the module has no client: Redis.from_url(...,
\* decode_responses=True), kept when the ping succeeds
GetRedisClient(reachable) ==
    /\ redis.client = "none"
    /\ redis' = [redis EXCEPT !.client = IF reachable THEN "text" ELSE "none"]
    /\ ret' = [op |-> "get_redis_client", reachable |-> reachable]
    /\ UNCHANGED <<agents, tasks, calls, execs, now, messages, redis_client, hist>>
    /\ UNCHANGED <<conflicts, requests, pending_requests>>

\* candidate_agents: the ids of the keys that hold any of the capabilities
CandidateAgents(rd, capabilities) ==
    {a \in DOMAIN rd.cache : rd.cache[a] \intersect capabilities # {}}

\* the fallback: the idle agents whose capabilities hold every capability
FilteredIdle(ags, capabilities) ==
    {a \in 1..Len(ags) : /\ ags[a].status = "idle"
                         /\ ags[a].caps # {}
                         /\ capabilities \subseteq ags[a].caps}

\* what find_agents_by_capability returns: with a client whose keys are
\* text and some candidate, the idle agents among the candidates; with keys
\* as bytes key.split(':') raises for the first hit, and the fallback runs
FoundByCapability(rd, ags, capabilities) ==
    IF rd.client = "text" /\ CandidateAgents(rd, capabilities) # {}
    THEN {a \in CandidateAgents(rd, capabilities) \intersect 1..Len(ags) :
             ags[a].status = "idle"}
    ELSE FilteredIdle(ags, capabilities)

FindAgentsByCapability(capabilities) ==
    /\ ret' = [op |-> "find_agents_by_capability", capabilities |-> capabilities,
               found |-> FoundByCapability(redis, agents, capabilities)]
    /\ UNCHANGED <<agents, tasks, calls, execs, now, messages, redis_client, hist>>
    /\ UNCHANGED <<conflicts, requests, pending_requests, redis>>

NextCache ==
    \/ \E n \in Names, cs \in CapSets : RegisterAgent(n, cs)
    \/ \E a \in AgentIds : UnregisterAgent(a)
    \/ \E b \in BOOLEAN : InitDatabase(b)
    \/ \E b \in BOOLEAN : GetRedisClient(b)
    \/ \E q \in QuerySets : FindAgentsByCapability(q)

SpecCache == Init /\ [][NextCache]_vars

----------------------------------------------------------------------------
(* The background loops next to submission, execution and reassignment:     *)
(* LoadBalancer.process_queue and AutoTaskExecutor._execution_loop only     *)
(* log; TaskExecutor.process_pending_tasks takes the tasks in progress      *)

\* process_queue: logger.debug("Processing task queue")
ProcessQueue ==
    /\ ret' = [op |-> "process_queue"]
    /\ UNCHANGED <<agents, tasks, calls, execs, now, messages, redis_client, hist>>
    /\ UNCHANGED <<conflicts, requests, pending_requests, redis>>

\* one round of _execution_loop: logger.debug, asyncio.sleep(15)
ExecutionLoop ==
    /\ ret' = [op |-> "_execution_loop"]
    /\ UNCHANGED <<agents, tasks, calls, execs, now, messages, redis_client, hist>>
    /\ UNCHANGED <<conflicts, requests, pending_requests, redis>>

NextPending ==
    \/ \E n \in Names, cs \in CapSets : RegisterAgent(n, cs)
    \/ \E r \in ReqSets : DecomposerCreate(1, r)
    \/ DelegateFind(1)
    \/ DelegateBind(1)
    \/ \E e \in ExecIds, t \in TaskIds : ExecuteBegin(e, t)
    \/ \E e \in ExecIds : ExecuteSucceed(e)
    \/ \E e \in ExecIds, m \in Msgs : ExecuteFail(e, m)
    \/ \E t \in TaskIds, m \in Msgs, p \in BOOLEAN : ReassignFailedTask(t, m, p)
    \/ ProcessQueue
    \/ ExecutionLoop

\* the loops keep running, a handler that was entered runs to its end, and
\* a task in progress is taken by process_pending_tasks
FairPending ==
    /\ WF_vars(NextPending)
    /\ WF_vars(ProcessQueue)
    /\ WF_vars(ExecutionLoop)
    /\ WF_vars(DelegateFind(1))
    /\ WF_vars(DelegateBind(1))
    /\ WF_vars(\E e \in ExecIds, t \in TaskIds : ExecuteBegin(e, t))
    /\ WF_vars(\E e \in ExecIds : ExecuteSucceed(e) \/ \E m \in Msgs : ExecuteFail(e, m))

SpecPending == Init /\ [][NextPending]_vars /\ FairPending

----------------------------------------------------------------------------
(* Properties *)

\* the tasks in progress on agent a
ActiveTasks(a) ==
    {t \in 1..Len(tasks) : tasks[t].status = "in_progress" /\ tasks[t].agent = a}

\* the status column of a task row: a row not yet committed was created
\* with status pending
StatusOf(row) == IF row.status = "uncommitted" THEN "pending" ELSE row.status

\* C1: once two concurrent delegate_task calls, started while exactly one
\* agent was idle and eligible, have both returned, exactly one of the tasks
\* is in progress and bound to an agent, and every other task is pending
\* with no agent bound.
C1_OneTaskBound ==
    (\A c \in CallIds : calls[c].pc = "done") =>
        /\ Cardinality({t \in 1..Len(tasks) : /\ tasks[t].status = "in_progress"
                                              /\ tasks[t].agent # 0}) = 1
        /\ \A t \in 1..Len(tasks) :
              tasks[t].status # "in_progress" =>
                  tasks[t].status = "pending" /\ tasks[t].agent = 0

\* C2: after resolve_conflict has returned for a conflict id present in
\* active_conflicts, whatever the method and the outcomes of the agent
\* requests and of the oracle, the conflict's status is resolved or failed.
C2_ResolutionLeavesNoDetected ==
    (ret.op = "resolve_conflict" /\ ret.t \in 1..Len(conflicts)) =>
        conflicts[ret.t] \in {"resolved", "failed"}

\* C3: in every reachable state each busy agent has exactly one in-progress
\* task assigned to it.
C3_BusyHasOneTask ==
    \A a \in 1..Len(agents) :
        agents[a].status = "busy" => Cardinality(ActiveTasks(a)) = 1

\* C4: every commit that puts a task in progress leaves the task bound to an
\* agent whose status is busy, and every commit that flips an agent to busy
\* puts a task bound to that agent in progress.
C4_BindingAtomic ==
    [][/\ \A t \in 1..Len(tasks') :
            (/\ tasks'[t].status = "in_progress"
             /\ (t > Len(tasks) \/ tasks[t].status # "in_progress"))
            => /\ tasks'[t].agent \in 1..Len(agents')
               /\ agents'[tasks'[t].agent].status = "busy"
       /\ \A a \in 1..Len(agents) :
            (agents[a].status # "busy" /\ agents'[a].status = "busy")
            => \E t \in 1..Len(tasks) :
                  /\ tasks[t].status # "in_progress"
                  /\ tasks'[t].status = "in_progress"
                  /\ tasks'[t].agent = a]_vars

\* C5: a task's status changes only pending -> in_progress, in_progress ->
\* completed, in_progress -> failed, and failed -> pending, the last only by
\* reassign_failed_task while retry_count < TASK_RETRY_LIMIT; so a completed
\* task, and a failed task with retry_count >= TASK_RETRY_LIMIT, keep their
\* status.
C5_StatusTransitions ==
    [][\A t \in 1..Len(tasks) :
          LET old == StatusOf(tasks[t])
              new == StatusOf(tasks'[t])
          IN  \/ old = new
              \/ <<old, new>> \in {<<"pending", "in_progress">>,
                                   <<"in_progress", "completed">>,
                                   <<"in_progress", "failed">>}
              \/ /\ <<old, new>> = <<"failed", "pending">>
                 /\ ret'.op = "reassign_failed_task" /\ ret'.t = t
                 /\ tasks[t].retry < TASK_RETRY_LIMIT]_vars

\* C6: a task whose failure has been reported TASK_RETRY_LIMIT (3) times to
\* reassign_failed_task, with no alternative agent available at any of the
\* attempts, has status failed, retry_count exactly 3, and an error reason
\* carrying the last failure message.
C6_ThreeFailuresExhaust ==
    \A t \in 1..Len(tasks) :
        (hist[t].n = TASK_RETRY_LIMIT /\ hist[t].noalt) =>
            /\ tasks[t].status = "failed"
            /\ tasks[t].retry = TASK_RETRY_LIMIT
            /\ tasks[t].err.msg = hist[t].last

\* C7: when a delegate_task call reads the agents and none is idle with a
\* score above the threshold, the task is committed pending with no agent,
\* the agents table is unchanged, and the caller receives 'No suitable agent
\* available'.
C7_NoAgentLeavesPending ==
    [][\A c \in CallIds :
          (/\ calls[c].pc = "created"
           /\ calls'[c].pc # "created"
           /\ \A a \in 1..Len(agents) :
                 ~EligibleAgent(agents[a], tasks[calls[c].task].reqs))
          => /\ tasks'[calls[c].task].status = "pending"
             /\ tasks'[calls[c].task].agent = 0
             /\ agents' = agents
             /\ calls'[c].result = "no_agent"
             /\ ret' = Ret("delegate_task", 0, calls[c].task, 0,
                           "No suitable agent available")]_vars

C7_Witness ==
    /\ ret.op = "delegate_task"
    /\ ret.s = "No suitable agent available"
    /\ tasks[ret.t].status = "pending"
    /\ \E a \in 1..Len(agents) : agents[a].status = "idle"

\* C8: no two agent records share a name (the number of records is the
\* number of distinct registered names), and right after register_agent
\* returns, the one record with that name holds the capabilities of that
\* call and is idle.
C8_RegistrationUpsert ==
    /\ Len(agents) = Cardinality({agents[a].name : a \in 1..Len(agents)})
    /\ ret.op = "register_agent" =>
          /\ Cardinality(AgentWithName(agents, ret.s)) = 1
          /\ \A a \in AgentWithName(agents, ret.s) :
                agents[a].caps = ret.c /\ agents[a].status = "idle"

\* a second registration under the same name with other capabilities: the
\* agent was bound to a task requiring a capability it no longer lists
C8_Witness ==
    /\ ret.op = "register_agent"
    /\ \E t \in 1..Len(tasks) :
          /\ tasks[t].status = "in_progress"
          /\ tasks[t].agent = ret.a
          /\ tasks[t].reqs \cap ret.c = {}
          /\ tasks[t].reqs # {}

\* C9: a sweep moves exactly the non-offline agents whose last_heartbeat is
\* older than the offline threshold to offline, changes no other agent and
\* returns the number moved; a sweep that directly follows a sweep changes
\* nothing and returns 0.
C9_SweepFixedPoint ==
    [][ret'.op = "cleanup_offline_agents" =>
          /\ Len(agents') = Len(agents)
          /\ \A a \in 1..Len(agents) :
                agents'[a] = IF /\ agents[a].status # "offline"
                                /\ agents[a].hb < now - OFFLINE_THRESHOLD
                             THEN [agents[a] EXCEPT !.status = "offline"]
                             ELSE agents[a]
          /\ ret'.v = Cardinality({a \in 1..Len(agents) :
                                      /\ agents[a].status # "offline"
                                      /\ agents[a].hb < now - OFFLINE_THRESHOLD})
          /\ ret.op = "cleanup_offline_agents" =>
                agents' = agents /\ ret'.v = 0]_vars

\* a sweep has moved a stale agent offline and left a fresh one as it was
C9_Witness ==
    /\ ret.op = "cleanup_offline_agents"
    /\ ret.v >= 1
    /\ \E a \in 1..Len(agents) :
          agents[a].status = "offline" /\ agents[a].hb < now - OFFLINE_THRESHOLD
    /\ \E a \in 1..Len(agents) :
          agents[a].status # "offline" /\ agents[a].hb >= now - OFFLINE_THRESHOLD

\* C10: when request_response has returned, with the response or with the
\* timeout result, pending_requests holds no entry for its correlation id.
C10_NoWaiterLeft ==
    \A r \in RequestIds : requests[r].pc = "returned" => r \notin pending_requests

C10_Witness ==
    \E r, q \in RequestIds :
        /\ requests[r].pc = "returned" /\ requests[r].result = "response"
        /\ requests[q].pc = "returned" /\ requests[q].result = "timeout"

\* C11: a response handed to handle_response for a correlation id whose
\* request has timed out, or that no request ever registered, is discarded:
\* no future is completed and pending_requests, every request and every
\* other waiter stay as they were.
C11_LateResponseDiscarded ==
    [][(/\ ret'.op = "handle_response"
        /\ \/ ret'.t \notin RequestIds
           \/ requests[ret'.t].pc = "idle"
           \/ requests[ret'.t].future = "cancelled")
       => /\ requests' = requests
          /\ pending_requests' = pending_requests]_vars

\* a response arrived for a request that had already returned its timeout,
\* while another request was still waiting
C11_Witness ==
    /\ ret.op = "handle_response"
    /\ ret.t \in RequestIds
    /\ requests[ret.t].pc = "returned"
    /\ requests[ret.t].result = "timeout"
    /\ \E q \in RequestIds : requests[q].pc = "waiting" /\ q \in pending_requests

\* C12: first assignment and reassignment apply the same threshold, total
\* score >= 0.3: the agent either of them binds scores at least 0.3, and
\* when either of them reports no suitable agent, no idle candidate scores
\* 0.3 or more.
C12_SameThreshold ==
    [][/\ \A c \in CallIds :
            (calls[c].pc = "created" /\ calls'[c].pc = "found") =>
                ScoreGE(TotalScore(agents[calls'[c].best], tasks[calls[c].task].reqs),
                        MinScore)
       /\ \A c \in CallIds :
            (calls[c].pc = "created" /\ calls'[c].pc = "done") =>
                \A a \in 1..Len(agents) :
                    agents[a].status = "idle" =>
                        ~ScoreGE(TotalScore(agents[a], tasks[calls[c].task].reqs), MinScore)
       /\ (ret'.op = "reassign_failed_task" /\ ret'.s = "reassigned") =>
              ScoreGE(TotalScore(agents[ret'.a], tasks[ret'.t].reqs), MinScore)
       /\ (ret'.op = "reassign_failed_task"
              /\ ret'.s = "No suitable alternative agent found") =>
              \A a \in 1..Len(agents) :
                  (agents[a].status = "idle" /\ a # tasks[ret'.t].agent) =>
                      ~ScoreGE(TotalScore(agents[a], tasks[ret'.t].reqs), MinScore)]_vars

\* C13: an agent whose capabilities share nothing with a task's non-empty
\* required set scores below 0.3 for it, whatever its performance record,
\* and no task is ever assigned to such an agent.
C13_DisjointNeverAssigned ==
    /\ \A a \in 1..Len(agents), r \in MatchReqSets :
          (r # {} /\ agents[a].caps \cap r = {}) =>
              ~ScoreGE(TotalScore(agents[a], r), MinScore)
    /\ \A t \in 1..Len(tasks) :
          (tasks[t].agent # 0 /\ tasks[t].reqs # {}) =>
              agents[tasks[t].agent].caps \cap tasks[t].reqs # {}

\* C14: for every agent and requirement set the total score lies in
\* [0, 1.2], and for the empty requirement set it is
\* 0.6 + 0.3 * success_rate + 0.1 * response_time_score.
C14_ScoreRange ==
    \A a \in 1..Len(agents), r \in MatchReqSets :
        LET sc == TotalScore(agents[a], r)
        IN  /\ sc[2] > 0
            /\ sc[1] >= 0
            /\ 10 * sc[1] <= 12 * sc[2]
            /\ r = {} =>
                  100 * sc[1] = (60 + 3 * agents[a].sr
                                    + (IF agents[a].rt >= 10000 THEN 0
                                       ELSE 10 - (agents[a].rt \div 1000))) * sc[2]

\* the matcher has scored an agent with the worst record (success rate 0,
\* response time beyond the scale) and one with a perfect success rate
C14_Witness ==
    /\ calls[1].pc \in {"found", "done"}
    /\ \E a \in 1..Len(agents) : agents[a].sr = 0 /\ agents[a].rt = 20000
    /\ \E a \in 1..Len(agents) : agents[a].sr = 10

\* C15: the heuristic triage returns score = min(10, 1 + 2 if more than one
\* required capability + 3 if multi_agent + the number of the six keywords
\* found case-insensitively in the description) and requires_decomposition
\* = (score >= 6), and changes nothing else; for 'Comprehensive analysis of
\* multiple detailed datasets', two capabilities and multi_agent the score
\* is 9 and decomposition is required.
C15_HeuristicTriage ==
    [][(ret'.op = "analyze_task_complexity" /\ ret'.oracle = "absent") =>
          /\ ret'.analysis.score =
                Min(10, 1 + (IF Cardinality(ret'.caps) > 1 THEN 2 ELSE 0)
                          + (IF ret'.multi THEN 3 ELSE 0)
                          + Cardinality(KeywordsFound(ret'.text)))
          /\ ret'.analysis.decompose = (ret'.analysis.score >= 6)
          /\ (ret'.text = DescDatasets /\ Cardinality(ret'.caps) = 2 /\ ret'.multi) =>
                (ret'.analysis.score = 9 /\ ret'.analysis.decompose)
          /\ (ret'.text = DescAll /\ Cardinality(ret'.caps) = 2 /\ ret'.multi) =>
                ret'.analysis.score = 10
          /\ (ret'.text = DescTypo /\ Cardinality(ret'.caps) < 2 /\ ~ret'.multi) =>
                (ret'.analysis.score = 1 /\ ~ret'.analysis.decompose)
          /\ UNCHANGED <<agents, tasks, calls, execs, now, messages, redis_client, hist, conflicts,
                         requests, pending_requests, redis>>]_vars

C15_Witness ==
    /\ ret.op = "analyze_task_complexity"
    /\ ret.oracle = "absent"
    /\ ret.text = DescDatasets
    /\ Cardinality(ret.caps) = 2
    /\ ret.multi
    /\ ret.analysis.score = 9

\* C16: when the oracle-backed analysis fails, analyze_task_complexity
\* returns the complexity_score and requires_decomposition the heuristic
\* returns for the same description and requirements.
C16_FallbackIsHeuristic ==
    (ret.op = "analyze_task_complexity" /\ ret.oracle = "fail") =>
        ret.analysis = HeuristicAnalysis(ret.text, ret.caps, ret.multi)

\* C17: when decompose_task fails or returns an empty list for a task
\* triaged as composite, no subtask is created and the call ends as a simple
\* assignment does: the task bound to the agent found, or left pending with
\* 'No suitable agent available'; never with an error of the oracle.
C17_EmptyDecompositionFallsBack ==
    \A c \in CallIds :
        calls[c].dec \in {"fail", "empty"} =>
            /\ SubtasksOf(tasks, calls[c].task) = {}
            /\ calls[c].pc \in {"created", "found", "done"}
            /\ calls[c].pc = "done" =>
                  \/ /\ calls[c].result = "assigned"
                     /\ tasks[calls[c].task].status = "in_progress"
                     /\ tasks[calls[c].task].agent = calls[c].best
                  \/ /\ calls[c].result = "no_agent"
                     /\ tasks[calls[c].task].status = "pending"

C17_Witness ==
    \E c \in CallIds :
        /\ calls[c].dec = "fail"
        /\ calls[c].pc = "done"
        /\ calls[c].result = "assigned"

\* C18: when create_execution_plan returns its default plan (no phases) for
\* a decomposed task, the call ends as a simple assignment of the task
\* does, with no subtask created.
C18_DefaultPlanFallsBack ==
    \A c \in CallIds :
        (/\ calls[c].pc = "done"
         /\ calls[c].dec = "subtasks"
         /\ \A i \in 1..Len(calls[c].plan) : calls[c].plan[i] = 0) =>
            /\ calls[c].result \in {"assigned", "no_agent"}
            /\ SubtasksOf(tasks, calls[c].task) = {}

\* C19: detect_conflict flags resource contention for a resource type
\* exactly when the sum of the given agents' numeric requirements for the
\* type exceeds 1.0, with severity high when the sum exceeds 1.5 and medium
\* otherwise.
C19_ContentionIffOverOne ==
    ret.op = "detect_conflict" =>
        \A type \in ResourceTypes :
            LET total == TotalRequirement(ret.given, type)
                flagged == {f \in ret.found : f.resource_type = type}
            IN  /\ total > 10 <=> flagged # {}
                /\ \A f \in flagged :
                      f.severity = IF total > 15 THEN "high" ELSE "medium"

\* C20: once a conflict's status is resolved or failed, no further
\* resolve_conflict call changes it.
C20_OneResolutionAttempt ==
    [][\A cid \in 1..Len(conflicts) :
          conflicts[cid] \in {"resolved", "failed"} =>
              conflicts'[cid] = conflicts[cid]]_vars

\* C21: an agent's status becomes offline only through
\* cleanup_offline_agents or unregister_agent; no other operation,
\* update_agent_status included, sets an agent to offline.
C21_OfflineOnlyBySweepOrUnregister ==
    [][\A a \in 1..Len(agents) :
          (agents[a].status # "offline" /\ agents'[a].status = "offline") =>
              ret'.op \in {"cleanup_offline_agents", "unregister_agent"}]_vars

\* C22: in broadcast_message a failure while sending to one recipient does
\* not keep the message from the remaining matching recipients: every
\* matching agent other than the sender and the one whose send failed gets
\* the message.
C22_BroadcastIsolatesFailure ==
    ret.op = "broadcast_message" =>
        (ret.recipients \ {ret.failed}) \subseteq ret.got

\* C23: with redis_client None, send_message persists the message and
\* returns its correlation id, and request_response ends by response or by
\* timeout, not by raising.
C23_WorksWithoutTransport ==
    redis_client = "none" =>
        /\ (ret.op = "send_message" /\ ret.persisted) => ret.outcome = "returned"
        /\ \A r \in RequestIds :
              requests[r].pc = "raised" => requests[r].result = "commit failed"

\* C24: a task that has subtasks becomes completed once all of its
\* subtasks are completed.
C24_ParentCompletesWithSubtasks ==
    \A p \in FamilyIds :
        (/\ SubtasksOf(tasks, p) # {}
         /\ \A u \in SubtasksOf(tasks, p) : tasks[u].status = "completed")
            ~> (tasks[p].status = "completed")

\* the reports of reassign_failed_task that name no alternative agent
NoAlternativeReports ==
    {"No alternative agents available", "No suitable alternative agent found"}

\* the other idle agents the matcher accepts for the task
OtherSuitableAgents(t) ==
    {a \in 1..Len(agents) : /\ a # tasks[t].agent
                            /\ agents[a].status = "idle"
                            /\ ScoreGE(TotalScore(agents[a], tasks[t].reqs), MinScore)}

\* C25 as stated: reassign_failed_task on a failed task never selects the
\* agent the task was assigned to and selects only a best match among the
\* other idle agents; when no such agent exists it reports that there is no
\* alternative agent and leaves the task failed with its agent unchanged.
C25_NoAlternativeAlwaysReported ==
    [][(/\ ret'.op = "reassign_failed_task"
        /\ ret'.s # "Task not found"
        /\ tasks[ret'.t].status = "failed") =>
          LET t == ret'.t
          IN  /\ ret'.s = "reassigned" =>
                    /\ ret'.a \in OtherSuitableAgents(t)
                    /\ tasks'[t].agent = ret'.a
              /\ OtherSuitableAgents(t) = {} =>
                    /\ ret'.s \in NoAlternativeReports
                    /\ tasks'[t].status = "failed"
                    /\ tasks'[t].agent = tasks[t].agent]_vars

\* C25, amended: reassign_failed_task on a failed task never selects the
\* agent the task was assigned to and selects only a best match among the
\* other idle agents; when no such agent exists and the retry limit is not
\* reached by this report, it reports that there is no alternative agent;
\* whenever no such agent exists the task stays failed with its agent
\* unchanged.
C25_ReassignExcludesFailedAgent ==
    [][(/\ ret'.op = "reassign_failed_task"
        /\ ret'.s # "Task not found"
        /\ tasks[ret'.t].status = "failed") =>
          LET t == ret'.t
          IN  /\ ret'.s = "reassigned" =>
                    /\ ret'.a \in OtherSuitableAgents(t)
                    /\ \A b \in OtherSuitableAgents(t) :
                          ScoreGE(TotalScore(agents[ret'.a], tasks[t].reqs),
                                  TotalScore(agents[b], tasks[t].reqs))
                    /\ tasks'[t].agent = ret'.a
              /\ OtherSuitableAgents(t) = {} =>
                    /\ tasks[t].retry + 1 < TASK_RETRY_LIMIT =>
                          ret'.s \in NoAlternativeReports
                    /\ tasks[t].retry + 1 >= TASK_RETRY_LIMIT =>
                          ret'.s = "Max retries exceeded"
                    /\ tasks'[t].status = "failed"
                    /\ tasks'[t].agent = tasks[t].agent]_vars

\* a failed task was reported with no other suitable idle agent and stayed
\* failed
C25_Witness ==
    /\ ret.op = "reassign_failed_task"
    /\ ret.s \in NoAlternativeReports
    /\ tasks[ret.t].status = "failed"
    /\ tasks[ret.t].agent # 0
    /\ OtherSuitableAgents(ret.t) = {}

\* C26: the delegator re-reads the agent's status immediately before
\* flipping it to busy and aborts when it is no longer idle: an agent that
\* is not idle at bind time is never bound to a task.
C26_BindOnlyIdle ==
    [][\A c \in CallIds :
          (calls[c].pc = "found" /\ calls'[c].pc = "done"
              /\ calls'[c].result = "assigned") =>
                agents[calls[c].best].status = "idle"]_vars

RECURSIVE WeightSum(_, _, _)
\* the sum of the claimed weights of the voters in S
WeightSum(weighted, voters, S) ==
    IF S = {} THEN 0
    ELSE LET i == CHOOSE j \in S : TRUE
         IN  (IF weighted
              THEN Max(100, 70 * voters[i].sr + 3 * Min(100, voters[i].total_tasks))
              ELSE 1000)
             + WeightSum(weighted, voters, S \ {i})

\* C27: voting resolution tallies one vote per involved agent that returned
\* a vote, with weight 1.0 unweighted or max(0.1, 0.7 * success_rate + 0.3 *
\* min(1, total_tasks / 100)) weighted, returns as winner an option whose
\* tally is maximal, and fails with 'No votes received' when no agent
\* returned a vote; a request that timed out contributes no vote.
C27_VotingTally ==
    ret.op = "resolve_by_voting" =>
        LET voted == {i \in 1..Len(ret.replies) : ret.replies[i] \notin {"timeout", "error"}}
        IN  IF voted = {}
            THEN ret.outcome = "No votes received"
            ELSE /\ ret.outcome = "success"
                 /\ DOMAIN ret.counts = {ret.replies[i] : i \in voted}
                 /\ \A o \in DOMAIN ret.counts :
                       ret.counts[o] = WeightSum(ret.weighted, ret.voters,
                                                 {i \in voted : ret.replies[i] = o})
                 /\ ret.winner \in DOMAIN ret.counts
                 /\ \A o \in DOMAIN ret.counts : ret.counts[ret.winner] >= ret.counts[o]

\* C28: a request that timed out during conflict resolution reaches the
\* strategy as a failure: when the expert does not respond within the
\* timeout, expert-decision resolution reports failure and the conflict is
\* not marked resolved.
C28_ExpertTimeoutFails ==
    [][(/\ ret'.op = "resolve_conflict"
        /\ ret'.s # "Conflict not found"
        /\ ret'.method = "expert_decision"
        /\ ret'.c = {"timeout"}) =>
          /\ ret'.s # "success"
          /\ conflicts[ret'.t] # "resolved" => conflicts'[ret'.t] # "resolved"]_vars

\* C29: last_heartbeat changes only on heartbeat and registration; flipping
\* an agent to busy on assignment or back to idle on completion or failure
\* leaves last_heartbeat unchanged.
C29_HeartbeatOnlyByHeartbeat ==
    [][\A a \in 1..Len(agents) :
          agents'[a].hb # agents[a].hb =>
              ret'.op \in {"heartbeat", "register_agent"}]_vars

\* agent x ranks before agent y by the claimed tie-break: higher
\* success_rate, then lower average response time
TieBreakAllows(x, y) == x.sr > y.sr \/ (x.sr = y.sr /\ x.rt <= y.rt)

\* C30: among idle agents with equal total score, the matcher ranks first
\* the one with the higher success_rate, and among those with equal
\* success_rate the one with the lower average response time, whatever the
\* order of the input list.
C30_TieBreak ==
    ret.op = "find_best_matches" =>
        LET score(i) == TotalScore(ret.pool[i], ret.required)
            tied(i, j) == ScoreGE(score(i), score(j)) /\ ScoreGE(score(j), score(i))
        IN  /\ \A p, q \in 1..Len(ret.matches) :
                  (p < q /\ tied(ret.matches[p], ret.matches[q])) =>
                      TieBreakAllows(ret.pool[ret.matches[p]], ret.pool[ret.matches[q]])
            /\ Len(ret.matches) > 0 =>
                  \A j \in 1..Len(ret.pool) :
                      (ret.pool[j].status = "idle" /\ tied(ret.matches[1], j)) =>
                          TieBreakAllows(ret.pool[ret.matches[1]], ret.pool[j])

\* C31: with several request_response calls pending, a response for a
\* correlation id completes the future of the call that issued that id and
\* no other, whatever the order of arrival; a call returns a response only
\* when its own future was completed; a second response for an answered id
\* changes nothing.
C31_ResponseReachesItsCall ==
    [][/\ \A r \in RequestIds :
             (requests[r].future # "set" /\ requests'[r].future = "set") =>
                 /\ ret'.op = "handle_response"
                 /\ ret'.t = r
                 /\ r \in pending_requests
       /\ \A r \in RequestIds :
             (requests[r].result # "response" /\ requests'[r].result = "response") =>
                 requests[r].future = "set"
       /\ (/\ ret'.op = "handle_response"
           /\ ret'.t \in RequestIds
           /\ requests[ret'.t].future = "set") =>
              /\ requests' = requests
              /\ pending_requests' = pending_requests]_vars

\* the request registered later was answered first, while the earlier one
\* was still waiting with its future pending
C31_Witness ==
    /\ ret.op = "handle_response"
    /\ ret.t = 2
    /\ requests[2].future = "set"
    /\ requests[1].pc = "waiting"
    /\ requests[1].future = "pending"
    /\ {1, 2} \subseteq pending_requests

\* C35: pending_requests has entries only for request_response calls still
\* in progress: when send_message raises inside request_response, the
\* waiter of the call is removed before the exception propagates.
C35_NoWaiterAfterSendFailure ==
    \A r \in RequestIds : requests[r].pc = "raised" => r \notin pending_requests

\* C32: a call for a task triaged as composite (through TaskDelegator with a
\* non-empty decomposition and plan, or through OrchestrationEngine.submit_task)
\* ends with one subtask row per decomposed subtask, each with parent_task_id
\* the task and the agent the plan names, and with the parent in progress.
C32_CompositeCreatesSubtasks ==
    \A c \in CallIds :
        (/\ calls[c].pc = "done"
         /\ calls[c].triage = "composite"
         /\ calls[c].kind = "delegator" =>
               /\ calls[c].dec = "subtasks"
               /\ calls[c].result = "complex"
               /\ \E i \in 1..Len(calls[c].plan) : calls[c].plan[i] # 0) =>
            LET t == calls[c].task
                subs == SubtasksOf(tasks, t)
            IN  /\ subs # {}
                /\ tasks[t].status = "in_progress"
                /\ calls[c].kind = "delegator" =>
                      /\ Cardinality(subs) = Len(calls[c].plan)
                      /\ \E first \in subs :
                            \A i \in 1..Len(calls[c].plan) :
                                /\ first + i - 1 \in subs
                                /\ calls[c].plan[i] # 0 =>
                                      tasks[first + i - 1].agent = calls[c].plan[i]

\* the sets of agents reported together
ReportedTogether(found) ==
    {{c.involved_agents[i] : i \in 1..Len(c.involved_agents)} : c \in found}

\* C33: the capability-overlap conflicts of detect_conflict do not depend on
\* the order of the agents list: any two given agents whose capability sets
\* have Jaccard similarity above 0.7 are reported together in a low-severity
\* overlap conflict, and an agent not above 0.7 with any other is in none.
C33_OverlapOrderIndependent ==
    ret.op = "detect_conflict" =>
        LET given == ret.given
            idx == 1..Len(given)
            Similar(i, j) ==
                /\ i # j
                /\ Overlaps(given[i].capabilities, given[j].capabilities)
        IN  /\ \A c \in ret.found : c.severity = "low"
            /\ \A i, j \in idx :
                  Similar(i, j) =>
                      \E g \in ReportedTogether(ret.found) :
                          {given[i].id, given[j].id} \subseteq g
            /\ \A i \in idx :
                  (\A j \in idx : ~Similar(i, j)) =>
                      \A g \in ReportedTogether(ret.found) : given[i].id \notin g
            /\ \A o \in Orders(idx) :
                  ReportedTogether(CapabilityConflicts([k \in idx |-> given[o[k]]]))
                      = ReportedTogether(ret.found)

\* C34: find_agents_by_capability returns the same agents with and without
\* the Redis capability cache: the idle agents whose stored capabilities
\* include every queried capability, also after re-registrations.
C34_CacheAgreesWithTable ==
    ret.op = "find_agents_by_capability" =>
        ret.found = {a \in 1..Len(agents) :
                        /\ agents[a].status = "idle"
                        /\ ret.capabilities \subseteq agents[a].caps}

\* C36: the winning_option of a voting resolution is one of the options
\* generated for the conflict; a vote_response whose selected_option is
\* missing or was not offered is not tallied.
C36_WinnerIsOffered ==
    (ret.op = "resolve_by_voting" /\ ret.outcome = "success") =>
        /\ ret.winner \in VoteOptions
        /\ DOMAIN ret.counts \subseteq VoteOptions

\* C37: a task's retry_count goes up by exactly one per failed execution
\* attempt, by nothing else, and never exceeds TASK_RETRY_LIMIT, whatever
\* failures and reassign_failed_task calls occur.
C37_RetryCountBounded ==
    [][\A t \in DOMAIN tasks \intersect DOMAIN tasks' :
          /\ tasks'[t].retry <= TASK_RETRY_LIMIT
          /\ tasks'[t].retry # tasks[t].retry =>
                /\ tasks'[t].retry = tasks[t].retry + 1
                /\ ret'.op = "complete_task"
                /\ ret'.t = t
                /\ ret'.v = 0]_vars

\* task t is committed as pending, no delegation of it is under way, and an
\* agent find_best_agent_for_task would take for it is idle
PendingWithIdleAgent(t) ==
    /\ t \in 1..Len(tasks)
    /\ tasks[t].status = "pending"
    /\ \A c \in CallIds : calls[c].task = t => calls[c].pc \in {"idle", "done"}
    /\ FindBestAgentForTask(agents, tasks[t].reqs) # {}

\* C38: a task left pending for want of a suitable agent, or returned to
\* pending by reassign_failed_task, is eventually bound and in progress once
\* a suitable agent is idle, with the background loops running and without
\* a new submission.
C38_PendingEventuallyBound ==
    \A t \in TaskIds :
        PendingWithIdleAgent(t) ~>
            (/\ t \in 1..Len(tasks)
             /\ tasks[t].status = "in_progress"
             /\ tasks[t].agent # 0)

\* C39: an agent that is offline (after unregister_agent or the offline
\* sweep) stays offline and is bound to no new task until register_agent or
\* an explicit status update; the completion or failure of a task it was
\* running does not set it back to idle.
C39_OfflineUntilRegistered ==
    [][\A a \in 1..Len(agents) :
          agents[a].status = "offline" =>
              /\ agents'[a].status # "offline" =>
                    ret'.op \in {"register_agent", "update_agent_status"}
              /\ \A t \in DOMAIN tasks' :
                    (tasks'[t].agent = a /\ tasks'[t].status = "in_progress") =>
                        /\ t \in DOMAIN tasks
                        /\ tasks[t].agent = a
                        /\ tasks[t].status = "in_progress"]_vars

============================================================================
